---------------------------- MODULE Spec2Model ----------------------------
(***************************************************************************)
(* Model of the zeroclaw supervisor: the session life cycle (session.js),  *)
(* the conversation loop (conversation.js), the planner (planner.js) and   *)
(* the distributor (distributor.js).                                        *)
(*                                                                         *)
(* Texts are sequences of one-character strings; "\n" separates lines.     *)
(* External commands (tmux, git, the agent binaries, GSD) are the          *)
(* environment: each invocation succeeds or fails as the action's inputs   *)
(* say.                                                                    *)
(***************************************************************************)
EXTENDS Integers, Sequences, FiniteSets, TLC

VARIABLES
  pc,          \* position of the supervisor process in Session.start
  outcome,     \* how the last supervisor process ended
  sess,        \* the Session object's fields
  doc,         \* .zeroclaw/session.json
  loadInfo,    \* what _loadOrInitState found on disk in this process
  nextId,      \* source of uuid(): the next unused identifier
  files,       \* .planning/<name> and .planning/phase-NN/PLAN.md
  quick,       \* .planning/quick/<entry>/PLAN.md
  surface,     \* the tmux session named zeroclaw
  briefs,      \* .zeroclaw/<agent>-task.md
  provisioned, \* agents whose superpowers directory exists
  plan,        \* the Plan handed from Planner.run to Distributor.run
  log,         \* external invocations of the running process's last dispatch
  nDisp,       \* dispatches that ran the planner or the distributor
  fnArgs,      \* arguments of a function under test
  fnRes,       \* its result
  peers        \* supervisor processes started side by side on the workspace

vars == <<pc, outcome, sess, doc, loadInfo, nextId, files, quick, surface,
          briefs, provisioned, plan, log, nDisp, fnArgs, fnRes, peers>>

sysVars == <<pc, outcome, sess, doc, loadInfo, nextId, files, quick, surface,
             briefs, provisioned, plan, log, nDisp>>

\* The variables the supervisor of Spec does not touch.
fnVars == <<fnArgs, fnRes, peers>>

(***************************************************************************)
(* Bounds of the model.                                                    *)
(***************************************************************************)
MaxTasks == 4
MaxStarts == 2
MaxDispatch == 1

Range(s) == {s[i] : i \in 1..Len(s)}

Min(a, b) == IF a < b THEN a ELSE b

(***************************************************************************)
(* The agent registry, in the order Object.entries(AGENTS) yields it.      *)
(***************************************************************************)
\* Two supervisor processes, and each before it is started.
Procs == {1, 2}

NoPeers == [p \in Procs |-> [pc |-> "off", id |-> 0]]

AGENTS == <<"gemini", "copilot", "codex", "opencode">>

AgentNames == Range(AGENTS)

(***************************************************************************)
(* Distributor._assignTasks: every agent starts with an empty list, then   *)
(* task i (0-based) is pushed on the list of agents[i % agents.length].    *)
(* Sequences are 1-based here, so the 0-based index of tasks[i] is i - 1.  *)
(***************************************************************************)
RECURSIVE AssignFrom_shift(_, _, _, _)
AssignFrom_shift(tasks, agents, i, acc) ==
  IF i > Len(tasks) THEN acc
  ELSE LET agent == agents[(i % Len(agents)) + 1]
       IN  AssignFrom_shift(tasks, agents, i + 1,
                            [acc EXCEPT ![agent] = Append(@, tasks[i])])

RECURSIVE AssignFrom_drop(_, _, _, _)
AssignFrom_drop(tasks, agents, i, acc) ==
  IF i >= Len(tasks) THEN acc
  ELSE LET agent == agents[((i - 1) % Len(agents)) + 1]
       IN  AssignFrom_drop(tasks, agents, i + 1,
                           [acc EXCEPT ![agent] = Append(@, tasks[i])])

RECURSIVE AssignFrom_first(_, _, _, _)
AssignFrom_first(tasks, agents, i, acc) ==
  IF i > Len(tasks) THEN acc
  ELSE LET agent == agents[Min(i, Len(agents))]
       IN  AssignFrom_first(tasks, agents, i + 1,
                            [acc EXCEPT ![agent] = Append(@, tasks[i])])

RECURSIVE AssignFrom(_, _, _, _)
AssignFrom(tasks, agents, i, acc) ==
  IF i > Len(tasks) THEN acc
  ELSE LET agent == agents[((i - 1) % Len(agents)) + 1]
       IN  AssignFrom(tasks, agents, i + 1,
                      [acc EXCEPT ![agent] = Append(@, tasks[i])])

AssignTasks_shift(tasks, agents) ==
  AssignFrom_shift(tasks, agents, 1, [a \in Range(agents) |-> <<>>])

AssignTasks_drop(tasks, agents) ==
  AssignFrom_drop(tasks, agents, 1, [a \in Range(agents) |-> <<>>])

AssignTasks_first(tasks, agents) ==
  AssignFrom_first(tasks, agents, 1, [a \in Range(agents) |-> <<>>])

AssignTasks(tasks, agents) ==
  AssignFrom(tasks, agents, 1, [a \in Range(agents) |-> <<>>])

(***************************************************************************)
(* Texts.                                                                  *)
(***************************************************************************)
Blank == {" ", "\t"}

Digits == <<"0", "1", "2", "3", "4", "5", "6", "7", "8", "9">>

IsDigit(c) == \E d \in 1..Len(Digits) : Digits[d] = c

DigitVal(c) == (CHOOSE d \in 1..Len(Digits) : Digits[d] = c) - 1

\* String.prototype.split('\n'): the lines of a text; "" has the one line "".
RECURSIVE SplitFrom(_, _, _, _)
SplitFrom(text, i, cur, acc) ==
  IF i > Len(text) THEN Append(acc, cur)
  ELSE IF text[i] = "\n" THEN SplitFrom(text, i + 1, <<>>, Append(acc, cur))
  ELSE SplitFrom(text, i + 1, Append(cur, text[i]), acc)

SplitLines(text) == SplitFrom(text, 1, <<>>, <<>>)

\* The first position from p on that holds no character of set ws.
RECURSIVE Skip(_, _, _)
Skip(s, p, ws) ==
  IF p <= Len(s) /\ s[p] \in ws THEN Skip(s, p + 1, ws) ELSE p

\* The last position up to p that holds no character of set ws.
RECURSIVE SkipBack(_, _, _)
SkipBack(s, p, ws) ==
  IF p >= 1 /\ s[p] \in ws THEN SkipBack(s, p - 1, ws) ELSE p

\* String.prototype.trim, on a line.
Trim(s) ==
  LET a == Skip(s, 1, Blank \cup {"\n"})
      b == SkipBack(s, Len(s), Blank \cup {"\n"})
  IN  IF a > b THEN <<>> ELSE SubSeq(s, a, b)

(***************************************************************************)
(* Planner._extractTasks.  The pattern /[-*]\s*\[[ x]\]\s*(.+)/i matched   *)
(* at position p of a line: the position where the capture (.+) starts, or *)
(* 0 when there is no match at p.  \s* is greedy but gives one character   *)
(* back when nothing else is left for (.+).                                *)
(***************************************************************************)
BoxAt(line, p) ==
  IF p > Len(line) \/ line[p] \notin {"-", "*"} THEN 0
  ELSE LET q == Skip(line, p + 1, Blank)
       IN  IF /\ q + 3 <= Len(line)
              /\ line[q] = "["
              /\ line[q + 1] \in {" ", "x", "X"}
              /\ line[q + 2] = "]"
           THEN LET r == Skip(line, q + 3, Blank)
                IN  IF r <= Len(line) THEN r ELSE Len(line)
           ELSE 0

\* line.match(...): the capture of the leftmost match, trimmed.
LineTask(line) ==
  LET ps == {p \in 1..Len(line) : BoxAt(line, p) # 0}
  IN  IF ps = {} THEN [match |-> FALSE, task |-> <<>>]
      ELSE LET p == CHOOSE x \in ps : \A y \in ps : x <= y
           IN  [match |-> TRUE,
                task  |-> Trim(SubSeq(line, BoxAt(line, p), Len(line)))]

RECURSIVE TasksOf(_, _)
TasksOf(lines, i) ==
  IF i > Len(lines) THEN <<>>
  ELSE LET m == LineTask(lines[i])
       IN  IF m.match THEN <<m.task>> \o TasksOf(lines, i + 1)
           ELSE TasksOf(lines, i + 1)

ExtractTasks(planMd) == TasksOf(SplitLines(planMd), 1)

(***************************************************************************)
(* Files.  A file is absent or holds a text.                               *)
(***************************************************************************)
Absent == [exists |-> FALSE, text |-> <<>>]

File(t) == [exists |-> TRUE, text |-> t]

\* The documents _readGSDPlan looks for, in its order.
PlanNames == <<"PLAN.md", "REQUIREMENTS.md", "ROADMAP.md", "CONTEXT.md",
               "RESEARCH.md">>

NoPhase == -1

\* path.join(planDir, `phase-${String(phase).padStart(2, '0')}`)
PhaseDir(phase) == <<"phase-", phase \div 10, phase % 10>>

PlanDir == <<".planning">>

\* The files the model follows; every other file reads as absent.
FileKeys == {<<PlanDir, "PLAN.md">>, <<PlanDir, "ROADMAP.md">>,
             <<PlanDir, "implement.md">>, <<PhaseDir(1), "PLAN.md">>}

Get(fs, key) == IF key \in DOMAIN fs THEN fs[key] ELSE Absent

\* Plan documents the planning collaborator may write.
TextNotes == <<"t", "o", "d", "o">>

TextTwo == <<"-", " ", "[", " ", "]", " ", "a", "\n",
             "n", "o", "t", "e", "\n",
             "*", " ", "[", "X", "]", " ", "b">>

TextThree == <<"-", "[", "x", "]", "a", "\n",
               "-", " ", "[", " ", "]", " ", "b", " ", "\n",
               "*", "[", " ", "]", "a">>

PlanTexts == {TextNotes, TextTwo}

\* Roadmaps the planning collaborator may write.
RoadmapOne == <<"#", " ", "P", "h", "a", "s", "e", " ", "1">>

RoadmapZero == <<"p", "h", "a", "s", "e", "\n", "0", "\n", "P", "h", "a",
                 "s", "e", " ", "1">>

RoadmapTexts == {RoadmapOne, RoadmapZero}

\* Entries of .planning/quick, each a sortable prefix of digits.
QuickNames == {<<0, 0, 1>>, <<0, 0, 2>>}

(***************************************************************************)
(* Planner._nextPhase: null without a roadmap; else the number after the   *)
(* first match of /Phase\s+(\d+)/i, or 1 when nothing matches.             *)
(***************************************************************************)
RECURSIVE ParseInt(_, _, _)
ParseInt(s, p, acc) ==
  IF p <= Len(s) /\ IsDigit(s[p]) THEN ParseInt(s, p + 1, 10 * acc + DigitVal(s[p]))
  ELSE acc

PhaseAt(s, p) ==
  /\ p + 5 <= Len(s)
  /\ s[p] \in {"p", "P"}
  /\ s[p + 1] \in {"h", "H"}
  /\ s[p + 2] \in {"a", "A"}
  /\ s[p + 3] \in {"s", "S"}
  /\ s[p + 4] \in {"e", "E"}
  /\ s[p + 5] \in Blank \cup {"\n"}
  /\ LET q == Skip(s, p + 5, Blank \cup {"\n"})
     IN  q <= Len(s) /\ IsDigit(s[q])

NextPhase(fs) ==
  LET roadmap == fs[<<PlanDir, "ROADMAP.md">>]
  IN  IF ~roadmap.exists THEN NoPhase
      ELSE LET s  == roadmap.text
               ps == {p \in 1..Len(s) : PhaseAt(s, p)}
           IN  IF ps = {} THEN 1
               ELSE LET p == CHOOSE x \in ps : \A y \in ps : x <= y
                    IN  ParseInt(s, Skip(s, p + 5, Blank \cup {"\n"}), 0)

(***************************************************************************)
(* Plans.  NoPlan stands for null.                                         *)
(***************************************************************************)
NoPlan == [type |-> "null", phase |-> NoPhase, tasks |-> <<>>,
           files |-> [n \in Range(PlanNames) |-> Absent]]

\* Planner._readGSDPlan: phase 0 and null both read the project directory.
ReadGSDPlan(fs, phase) ==
  LET scoped == phase # NoPhase /\ phase # 0
      base   == IF scoped THEN PhaseDir(phase) ELSE PlanDir
      got    == [n \in Range(PlanNames) |-> Get(fs, <<base, n>>)]
      tasks  == IF got["PLAN.md"].exists /\ got["PLAN.md"].text # <<>>
                THEN ExtractTasks(got["PLAN.md"].text) ELSE <<>>
  IN  IF Len(tasks) # 0
      THEN [type  |-> IF scoped THEN "phase" ELSE "project",
            phase |-> phase, tasks |-> tasks, files |-> got]
      ELSE NoPlan

\* Lexicographic order of two entry names: Array.prototype.sort's default.
RECURSIVE LexLess(_, _)
LexLess(a, b) ==
  IF a = <<>> THEN b # <<>>
  ELSE IF b = <<>> THEN FALSE
  ELSE IF a[1] # b[1] THEN a[1] < b[1]
  ELSE LexLess(Tail(a), Tail(b))

\* _readQuickPlan taking the first entry of the sorted listing.
ReadQuickPlan_first(q) ==
  LET subdirs == {n \in DOMAIN q : q[n].dir}
  IN  IF subdirs = {} THEN NoPlan
      ELSE LET latest == CHOOSE n \in subdirs :
                           \A m \in subdirs : m = n \/ LexLess(n, m)
           IN  IF ~q[latest].plan.exists THEN NoPlan
               ELSE [type  |-> "quick", phase |-> NoPhase,
                     tasks |-> ExtractTasks(q[latest].plan.text),
                     files |-> [n \in Range(PlanNames) |->
                                  IF n = "PLAN.md" THEN q[latest].plan
                                  ELSE Absent]]

\* Planner._readQuickPlan: q maps each entry of .planning/quick to its PLAN.md;
\* an entry is present when q[n].dir holds.
ReadQuickPlan(q) ==
  LET subdirs == {n \in DOMAIN q : q[n].dir}
  IN  IF subdirs = {} THEN NoPlan
      ELSE LET latest == CHOOSE n \in subdirs :
                           \A m \in subdirs : m = n \/ LexLess(m, n)
           IN  IF ~q[latest].plan.exists THEN NoPlan
               ELSE [type  |-> "quick", phase |-> NoPhase,
                     tasks |-> ExtractTasks(q[latest].plan.text),
                     files |-> [n \in Range(PlanNames) |->
                                  IF n = "PLAN.md" THEN q[latest].plan
                                  ELSE Absent]]

(***************************************************************************)
(* The distributor works on a world w: the files, the tmux surface, the    *)
(* task briefs, the provisioned agents, the log of external invocations    *)
(* and whether an exception is propagating (thrown).  An invocation        *)
(* <<op, arg>> fails when the environment's input fail names it, or when   *)
(* tmux must refuse it (no such session, duplicate session).               *)
(***************************************************************************)
NoFail == [op |-> "none", arg |-> ""]

Fails(fail, op, arg) == fail = [op |-> op, arg |-> arg]

Emit(w, op, arg, ok) ==
  [w EXCEPT !.log = Append(@, [op |-> op, arg |-> arg, ok |-> ok])]

Throw(w) == [w EXCEPT !.thrown = TRUE]

NoSurface == [up |-> FALSE, windows |-> <<>>]

\* A window: its name, the send-keys it received, the command line the last
\* one typed, and whether the worker that command started has finished.
Window(name) == [name |-> name, keys |-> 0, cmd |-> "", done |-> FALSE]

\* tmux send-keys -t zeroclaw:<name>, on a surface where one window is so
\* named.
SendKeys(sf, name, cmd) ==
  LET ix == {i \in 1..Len(sf.windows) : sf.windows[i].name = name}
  IN  IF ix = {} THEN sf
      ELSE LET i == CHOOSE x \in ix : \A y \in ix : x <= y
           IN  [sf EXCEPT !.windows[i].keys = @ + 1, !.windows[i].cmd = cmd]

\* tmux refuses a target that names several windows.
Ambiguous(sf, name) ==
  Cardinality({i \in 1..Len(sf.windows) : sf.windows[i].name = name}) > 1

\* _detectAgents without the try around the probe: the first failure ends
\* the loop.
RECURSIVE DetectFrom_stop(_, _)
DetectFrom_stop(up, i) ==
  IF i > Len(AGENTS) \/ AGENTS[i] \notin up THEN <<>>
  ELSE <<AGENTS[i]>> \o DetectFrom_stop(up, i + 1)

DetectAgents_stop(up) == DetectFrom_stop(up, 1)

\* Distributor._detectAgents: the registry entries whose probe succeeded, in
\* registry order; a failed probe only leaves its entry out.
DetectAgents(up) == SelectSeq(AGENTS, LAMBDA a : a \in up)

\* The probes of _detectAgents, one per registry entry, as log entries.
RECURSIVE EmitProbes(_, _, _)
EmitProbes(w, up, i) ==
  IF i > Len(AGENTS) THEN w
  ELSE EmitProbes(Emit(w, "probe", AGENTS[i], AGENTS[i] \in up), up, i + 1)

\* _ensureSuperpowers without its catch.
EnsureSuperpowers_fatal(w, agent, fail) ==
  IF Fails(fail, "provision", agent)
  THEN Throw(Emit(w, IF agent \in w.provisioned THEN "pull" ELSE "clone",
                  agent, FALSE))
  ELSE IF agent \in w.provisioned THEN Emit(w, "pull", agent, TRUE)
  ELSE Emit([w EXCEPT !.provisioned = @ \cup {agent}], "clone", agent, TRUE)

\* Distributor._ensureSuperpowers: pull when installed, else clone and link;
\* every failure is caught.
EnsureSuperpowers(w, agent, fail) ==
  IF agent \in w.provisioned
  THEN Emit(w, "pull", agent, ~Fails(fail, "provision", agent))
  ELSE IF Fails(fail, "provision", agent)
  THEN Emit(w, "clone", agent, FALSE)
  ELSE Emit([w EXCEPT !.provisioned = @ \cup {agent}], "clone", agent, TRUE)

RECURSIVE EnsureAll(_, _, _, _)
EnsureAll(w, agents, i, fail) ==
  IF i > Len(agents) THEN w
  ELSE EnsureAll(EnsureSuperpowers(w, agents[i], fail), agents, i + 1, fail)

\* `# Implementation Tracking\n\n${tasks}\n`, tasks joined by "\n".
ImplHeader == <<"#", " ", "I", "m", "p", "l", "e", "m", "e", "n", "t", "a",
                "t", "i", "o", "n", " ", "T", "r", "a", "c", "k", "i", "n",
                "g", "\n", "\n">>

RECURSIVE CheckboxLines(_, _)
CheckboxLines(tasks, i) ==
  IF i > Len(tasks) THEN <<>>
  ELSE <<"-", " ", "[", " ", "]", " ">> \o tasks[i]
       \o (IF i < Len(tasks) THEN <<"\n">> ELSE <<>>)
       \o CheckboxLines(tasks, i + 1)

ImplText(tasks) == ImplHeader \o CheckboxLines(tasks, 1) \o <<"\n">>

\* _writePlanArtifacts without the pathExists test on implement.md.
WritePlanArtifacts_overwrite(w, p) ==
  LET impl == <<PlanDir, "implement.md">>
      fs1  == [w.files EXCEPT ![impl] = File(ImplText(p.tasks))]
      fs2  == [k \in FileKeys |->
                 IF /\ k[1] = PlanDir
                    /\ k[2] \in Range(PlanNames)
                    /\ p.files[k[2]].exists
                    /\ ~fs1[k].exists
                 THEN p.files[k[2]] ELSE fs1[k]]
  IN  Emit([w EXCEPT !.files = fs2], "write-artifacts", "", TRUE)

\* Distributor._writePlanArtifacts: implement.md and every document of the
\* plan, each only where .planning holds none yet.
WritePlanArtifacts(w, p) ==
  LET impl == <<PlanDir, "implement.md">>
      fs1  == IF w.files[impl].exists THEN w.files
              ELSE [w.files EXCEPT ![impl] = File(ImplText(p.tasks))]
      fs2  == [k \in FileKeys |->
                 IF /\ k[1] = PlanDir
                    /\ k[2] \in Range(PlanNames)
                    /\ p.files[k[2]].exists
                    /\ ~fs1[k].exists
                 THEN p.files[k[2]] ELSE fs1[k]]
  IN  Emit([w EXCEPT !.files = fs2], "write-artifacts", "", TRUE)

\* Distributor._buildAgentPrompt, the section "Your Tasks":
\* tasks.map((t, i) => `${i + 1}. ${t}`), one numbered line per task.
TaskList(tasks) == [i \in 1..Len(tasks) |-> [no |-> i, text |-> tasks[i]]]

\* _launchAgentPane writing the brief after the window is set up.
LaunchAgentPane_after(w, agent, tasks, fail) ==
  IF Fails(fail, "new-window", agent) \/ ~w.surface.up
  THEN Throw(Emit(w, "new-window", agent, FALSE))
  ELSE LET w2 == Emit([w EXCEPT !.surface.windows = Append(@, Window(agent))],
                      "new-window", agent, TRUE)
       IN  IF Fails(fail, "cd-keys", agent)
           THEN Throw(Emit(w2, "cd-keys", agent, FALSE))
           ELSE LET w3 == Emit([w2 EXCEPT !.surface = SendKeys(@, agent, "cd")],
                               "cd-keys", agent, TRUE)
                IN  IF Fails(fail, "cmd-keys", agent)
                    THEN Throw(Emit(w3, "cmd-keys", agent, FALSE))
                    ELSE Emit([w3 EXCEPT
                                 !.surface = SendKeys(@, agent, agent),
                                 !.briefs[agent] =
                                   [exists |-> TRUE, tasks |-> TaskList(tasks)]],
                              "brief", agent, TRUE)

\* Distributor._launchAgentPane: the brief, then new-window and two
\* send-keys; none of the three is guarded.
LaunchAgentPane(w, agent, tasks, fail) ==
  LET w1 == Emit([w EXCEPT !.briefs[agent] =
                    [exists |-> TRUE, tasks |-> TaskList(tasks)]],
                 "brief", agent, TRUE)
  IN  IF Fails(fail, "new-window", agent) \/ ~w1.surface.up
      THEN Throw(Emit(w1, "new-window", agent, FALSE))
      ELSE LET w2 == Emit([w1 EXCEPT !.surface.windows = Append(@, Window(agent))],
                          "new-window", agent, TRUE)
           IN  IF Fails(fail, "cd-keys", agent)
               THEN Throw(Emit(w2, "cd-keys", agent, FALSE))
               ELSE LET w3 == Emit([w2 EXCEPT !.surface = SendKeys(@, agent, "cd")],
                                   "cd-keys", agent, TRUE)
                    IN  IF Fails(fail, "cmd-keys", agent)
                        THEN Throw(Emit(w3, "cmd-keys", agent, FALSE))
                        ELSE Emit([w3 EXCEPT !.surface = SendKeys(@, agent, agent)],
                                  "cmd-keys", agent, TRUE)

\* The loop of _launchTmux passing over the workers without a task.
RECURSIVE LaunchPanes_skip(_, _, _, _, _)
LaunchPanes_skip(w, asg, order, i, fail) ==
  IF i > Len(order) \/ w.thrown THEN w
  ELSE LaunchPanes_skip(IF asg[order[i]] = <<>> THEN w
                        ELSE LaunchAgentPane(w, order[i], asg[order[i]], fail),
                        asg, order, i + 1, fail)

\* The loop of _launchTmux over Object.entries(assignments): an exception
\* leaves the loop.
RECURSIVE LaunchPanes(_, _, _, _, _)
LaunchPanes(w, asg, order, i, fail) ==
  IF i > Len(order) \/ w.thrown THEN w
  ELSE LaunchPanes(LaunchAgentPane(w, order[i], asg[order[i]], fail),
                   asg, order, i + 1, fail)

\* The stale-session teardown without its catch.
KillStale_raise(w, fail) ==
  LET killed == w.surface.up /\ ~Fails(fail, "kill-session", "")
      w1 == Emit([w EXCEPT !.surface = IF killed THEN NoSurface ELSE @],
                 "kill-session", "", killed)
  IN  IF killed THEN w1 ELSE Throw(w1)

\* _launchTmux, "Kill stale session if exists": tmux kill-session -t zeroclaw
\* in a try whose catch is empty.
KillStale(w, fail) ==
  LET killed == w.surface.up /\ ~Fails(fail, "kill-session", "")
  IN  Emit([w EXCEPT !.surface = IF killed THEN NoSurface ELSE @],
           "kill-session", "", killed)

\* _launchTmux without the stale-session teardown, on a tmux that attaches
\* new-session to the session of that name.
LaunchTmux_keep(w, asg, order, fail) ==
  IF Fails(fail, "new-session", "")
  THEN Throw(Emit(w, "new-session", "", FALSE))
  ELSE
  LET w2 == Emit([w EXCEPT !.surface =
                    [up |-> TRUE,
                     windows |-> IF @.up THEN @.windows
                                 ELSE <<Window("supervisor")>>]],
                 "new-session", "", TRUE)
  IN  IF Fails(fail, "status-keys", "")
      THEN Throw(Emit(w2, "status-keys", "", FALSE))
      ELSE
      LET w3 == Emit([w2 EXCEPT !.surface = SendKeys(@, "supervisor", "status")],
                     "status-keys", "", TRUE)
          w4 == LaunchPanes(w3, asg, order, 1, fail)
      IN  IF w4.thrown THEN w4
          ELSE IF Fails(fail, "select-layout", "")
          THEN Throw(Emit(w4, "select-layout", "", FALSE))
          ELSE Emit(w4, "select-layout", "", TRUE)

\* _launchTmux sending the status script after the worker windows.
LaunchTmux_late(w, asg, order, fail) ==
  LET w1 == KillStale(w, fail)
  IN  IF w1.surface.up \/ Fails(fail, "new-session", "")
      THEN Throw(Emit(w1, "new-session", "", FALSE))
      ELSE
      LET w2 == Emit([w1 EXCEPT !.surface =
                        [up |-> TRUE, windows |-> <<Window("supervisor")>>]],
                     "new-session", "", TRUE)
          w3 == LaunchPanes(w2, asg, order, 1, fail)
      IN  IF w3.thrown THEN w3
          ELSE IF Fails(fail, "status-keys", "")
          THEN Throw(Emit(w3, "status-keys", "", FALSE))
          ELSE
          LET w4 == Emit([w3 EXCEPT !.surface = SendKeys(@, "supervisor", "status")],
                         "status-keys", "", TRUE)
          IN  IF Fails(fail, "select-layout", "")
              THEN Throw(Emit(w4, "select-layout", "", FALSE))
              ELSE Emit(w4, "select-layout", "", TRUE)

\* Distributor._launchTmux.
LaunchTmux(w, asg, order, fail) ==
  LET w1 == KillStale(w, fail)
  IN  IF w1.surface.up \/ Fails(fail, "new-session", "")
      THEN Throw(Emit(w1, "new-session", "", FALSE))
      ELSE
      LET w2 == Emit([w1 EXCEPT !.surface =
                        [up |-> TRUE, windows |-> <<Window("supervisor")>>]],
                     "new-session", "", TRUE)
      IN  IF Fails(fail, "status-keys", "")
          THEN Throw(Emit(w2, "status-keys", "", FALSE))
          ELSE
          LET w3 == Emit([w2 EXCEPT !.surface = SendKeys(@, "supervisor", "status")],
                         "status-keys", "", TRUE)
              w4 == LaunchPanes(w3, asg, order, 1, fail)
          IN  IF w4.thrown THEN w4
              ELSE IF Fails(fail, "select-layout", "")
              THEN Throw(Emit(w4, "select-layout", "", FALSE))
              ELSE Emit(w4, "select-layout", "", TRUE)

\* Distributor.run launching before it provisions and writes the artifacts.
DistRun_launchFirst(w, p, up, fail) ==
  LET available == DetectAgents(up)
      w1 == EmitProbes(w, up, 1)
  IN  IF Len(available) = 0 THEN w1
      ELSE LET w2 == LaunchTmux(w1, AssignTasks(p.tasks, available), available,
                                fail)
           IN  IF w2.thrown THEN w2
               ELSE WritePlanArtifacts(EnsureAll(w2, available, 1, fail), p)

\* Distributor.run writing the plan artifacts before it looks at the probe's
\* answer.
DistRun_late(w, p, up, fail) ==
  LET available == DetectAgents(up)
      w1 == WritePlanArtifacts(EmitProbes(w, up, 1), p)
  IN  IF Len(available) = 0 THEN w1
      ELSE LET w2 == EnsureAll(w1, available, 1, fail)
               assignments == AssignTasks(p.tasks, available)
           IN  LaunchTmux(w2, assignments, available, fail)

\* Distributor.run recording the launched workers in the session and saving
\* the session document.
DistRun_agents(w, p, up, fail) ==
  LET available == DetectAgents(up)
      w1 == EmitProbes(w, up, 1)
  IN  IF Len(available) = 0 THEN w1
      ELSE LET w2 == EnsureAll(w1, available, 1, fail)
               w3 == WritePlanArtifacts(w2, p)
               assignments == AssignTasks(p.tasks, available)
               w4 == LaunchTmux(w3, assignments, available, fail)
           IN  IF w4.thrown THEN w4
               ELSE [w4 EXCEPT !.sess.agents = available,
                               !.doc.agents = available]

\* Distributor.run, with the probe's answer up.
DistRun(w, p, up, fail) ==
  LET available == DetectAgents(up)
      w1 == EmitProbes(w, up, 1)
  IN  IF Len(available) = 0 THEN w1
      ELSE LET w2 == EnsureAll(w1, available, 1, fail)
               w3 == WritePlanArtifacts(w2, p)
               assignments == AssignTasks(p.tasks, available)
           IN  LaunchTmux(w3, assignments, available, fail)

\* _tmuxNewPane without its try.
TmuxNewPane_raise(w, name, cmd, fail) ==
  IF Fails(fail, "new-window", name) \/ ~w.surface.up
  THEN Throw(Emit(w, "new-window", name, FALSE))
  ELSE LET w1 == Emit([w EXCEPT !.surface.windows = Append(@, Window(name))],
                      "new-window", name, TRUE)
       IN  IF Fails(fail, "cmd-keys", name) \/ Ambiguous(w1.surface, name)
           THEN Throw(Emit(w1, "cmd-keys", name, FALSE))
           ELSE Emit([w1 EXCEPT !.surface = SendKeys(@, name, cmd)],
                     "cmd-keys", name, TRUE)

\* Distributor._tmuxNewPane: new-window and send-keys, failures caught.
TmuxNewPane(w, name, cmd, fail) ==
  IF Fails(fail, "new-window", name) \/ ~w.surface.up
  THEN Emit(w, "new-window", name, FALSE)
  ELSE LET w1 == Emit([w EXCEPT !.surface.windows = Append(@, Window(name))],
                      "new-window", name, TRUE)
       IN  IF Fails(fail, "cmd-keys", name) \/ Ambiguous(w1.surface, name)
           THEN Emit(w1, "cmd-keys", name, FALSE)
           ELSE Emit([w1 EXCEPT !.surface = SendKeys(@, name, cmd)],
                     "cmd-keys", name, TRUE)

\* resumeFromState always taking the first available worker.
ResumeFromState_first(w, up, fail) ==
  LET available == DetectAgents(up)
      w1 == EmitProbes(w, up, 1)
  IN  IF Len(available) = 0 THEN w1
      ELSE LET w2 == EnsureAll(w1, available, 1, fail)
               runtime == available[1]
           IN  TmuxNewPane(Emit(w2, "resume-pane", runtime, TRUE),
                           "resume", runtime, fail)

\* Distributor.resumeFromState; the resume-pane entry of the log names the
\* runtime of paneCmd.
ResumeFromState(w, up, fail) ==
  LET available == DetectAgents(up)
      w1 == EmitProbes(w, up, 1)
  IN  IF Len(available) = 0 THEN w1
      ELSE LET w2 == EnsureAll(w1, available, 1, fail)
               runtime == IF "opencode" \in Range(available) THEN "opencode"
                          ELSE available[1]
           IN  TmuxNewPane(Emit(w2, "resume-pane", runtime, TRUE),
                           "resume", runtime, fail)

(***************************************************************************)
(* Planner.run.  The planning collaborator (GSD) is the environment: g     *)
(* says whether discuss-phase (g.pre) and the command that writes the plan *)
(* (g.ok) succeed, and what a successful command leaves on disk.           *)
(* _gsdCommand catches every failure and the reader runs regardless.       *)
(***************************************************************************)
GsdOutcomes ==
  [pre : BOOLEAN, ok : {FALSE}, pt : {TextNotes}, rt : {RoadmapOne},
   qn : {<<0, 0, 1>>}]
  \cup [pre : {TRUE}, ok : {TRUE}, pt : PlanTexts, rt : RoadmapTexts,
        qn : QuickNames]

\* Planner._gsdCommand without its catch.
GsdCommand_throw(w, cmd, ok) ==
  IF ok THEN Emit(w, "gsd", cmd, TRUE) ELSE Throw(Emit(w, "gsd", cmd, FALSE))

\* Planner._gsdCommand: the invocation is logged; a failure is swallowed.
GsdCommand(w, cmd, ok) == Emit(w, "gsd", cmd, ok)

\* Planner._runNewProject.
RunNewProject(w, g) ==
  LET fs == IF g.ok
            THEN [w.files EXCEPT ![<<PlanDir, "PLAN.md">>]    = File(g.pt),
                                 ![<<PlanDir, "ROADMAP.md">>] = File(g.rt)]
            ELSE w.files
      w1 == GsdCommand([w EXCEPT !.files = fs], "new-project", g.ok)
  IN  IF w1.thrown THEN w1
      ELSE [w1 EXCEPT !.plan = ReadGSDPlan(w1.files, NoPhase)]

\* Planner._runNewTask.
RunNewTask(w, g) ==
  LET phase == NextPhase(w.files)
  IN  IF phase = NoPhase
      THEN LET q  == IF g.ok
                     THEN [w.quick EXCEPT ![g.qn] =
                             [dir |-> TRUE, plan |-> File(g.pt)]]
                     ELSE w.quick
               w1 == GsdCommand([w EXCEPT !.quick = q], "quick", g.ok)
           IN  IF w1.thrown THEN w1
               ELSE [w1 EXCEPT !.plan = ReadQuickPlan(w1.quick)]
      ELSE LET w1 == GsdCommand(w, "discuss-phase", g.pre)
               fs == IF g.ok /\ <<PhaseDir(phase), "PLAN.md">> \in FileKeys
                     THEN [w1.files EXCEPT ![<<PhaseDir(phase), "PLAN.md">>] =
                             File(g.pt)]
                     ELSE w1.files
               w2 == IF w1.thrown THEN w1
                     ELSE GsdCommand([w1 EXCEPT !.files = fs], "plan-phase", g.ok)
           IN  IF w2.thrown THEN w2
               ELSE [w2 EXCEPT !.plan = ReadGSDPlan(w2.files, phase)]

\* Planner.run.
PlannerRun(w, intent, g) ==
  IF intent = "project_init" THEN RunNewProject(w, g) ELSE RunNewTask(w, g)

(***************************************************************************)
(* conversation.js, classifyIntent: an input is blank or carries keywords  *)
(* of the four classes; the classes are tested in this order.              *)
(***************************************************************************)
Inputs ==
  {[blank |-> TRUE, kw |-> {}]}
  \cup {[blank |-> FALSE, kw |-> k] :
          k \in {{}, {"exit"}, {"init"}, {"continue"}, {"task"},
                 {"exit", "init"}, {"init", "task"}, {"continue", "task"}}}

ClassifyIntent(input) ==
  IF "exit" \in input.kw THEN "exit"
  ELSE IF "init" \in input.kw THEN "project_init"
  ELSE IF "continue" \in input.kw THEN "continue"
  ELSE IF "task" \in input.kw THEN "new_task"
  ELSE "unknown"

(***************************************************************************)
(* The persisted session document.                                         *)
(***************************************************************************)
NoDoc == [kind |-> "absent", id |-> 0, status |-> "", agents |-> <<>>,
          startedAt |-> FALSE, endedAt |-> FALSE]

\* A document a write left truncated: fs.readJson throws on it.
CorruptDoc == [NoDoc EXCEPT !.kind = "corrupt"]

\* _saveState dropping its argument: the document carries no status.
SaveState_bare(s, status) ==
  [kind |-> "ok", id |-> s.id, status |-> "", agents |-> s.agents,
   startedAt |-> FALSE, endedAt |-> FALSE]

\* Session._saveState({status: 'active', startedAt}) and ({status: 'ended', endedAt}).
SaveState(s, status) ==
  [kind |-> "ok", id |-> s.id, status |-> status, agents |-> s.agents,
   startedAt |-> (status = "active"), endedAt |-> (status = "ended")]

\* _loadOrInitState keeping the constructor's identifier whatever is on disk.
ResumeId_fresh(prev, fresh) == fresh

\* Session._loadOrInitState, the identifier: the one of an unfinished
\* previous session, else the one the constructor generated.
ResumeId(prev, fresh) ==
  IF prev.kind = "ok" /\ prev.status # "ended" THEN prev.id ELSE fresh

\* The probes' answers and the failing invocation the environment may choose.
UpChoices == {{}, {"gemini", "codex"}, AgentNames}

FailPoints ==
  {NoFail}
  \cup [op : {"kill-session", "new-session", "status-keys", "select-layout"},
        arg : {""}]
  \cup [op : {"provision", "new-window", "cd-keys"}, arg : {"gemini"}]
  \cup [op : {"new-window"}, arg : {"resume"}]

World ==
  [files |-> files, quick |-> quick, surface |-> surface, briefs |-> briefs,
   provisioned |-> provisioned, sess |-> sess, doc |-> doc, plan |-> NoPlan,
   log |-> <<>>, thrown |-> FALSE]

\* Session.dispatch(intent, context), entered: the log of the dispatch opens.
Dispatching(intent) == Emit(World, "dispatch", intent, TRUE)

(***************************************************************************)
(* The workspace the first supervisor is started in: a fresh one, or one   *)
(* in which an earlier session's new-project run left its plan and roadmap *)
(* (the state ConversePlan reaches from the fresh one).                    *)
(***************************************************************************)
FreshWorkspace == [k \in FileKeys |-> Absent]

UsedWorkspace ==
  [FreshWorkspace EXCEPT ![<<PlanDir, "PLAN.md">>] = File(TextTwo),
                         ![<<PlanDir, "ROADMAP.md">>] = File(RoadmapOne)]

(***************************************************************************)
(* Actions.                                                                *)
(***************************************************************************)
Init ==
  /\ pc = "off"
  /\ outcome = "none"
  /\ sess = [id |-> 0, state |-> "idle", agents |-> <<>>, resume |-> FALSE]
  /\ doc = NoDoc
  /\ loadInfo = [found |-> "none", stored |-> 0, fresh |-> 0]
  /\ nextId = 1
  /\ files \in {FreshWorkspace, UsedWorkspace}
  /\ quick = [n \in QuickNames |-> [dir |-> FALSE, plan |-> Absent]]
  /\ surface = NoSurface
  /\ briefs = [a \in AgentNames |-> [exists |-> FALSE, tasks |-> <<>>]]
  /\ provisioned = {}
  /\ plan = NoPlan
  /\ log = <<>>
  /\ nDisp = 0
  /\ fnArgs = [tasks |-> <<>>, agents |-> <<>>]
  /\ fnRes = [done |-> FALSE, val |-> <<>>]
  /\ peers = NoPeers

\* bin/zeroclaw.js start: new Session(opts); the constructor draws a uuid
\* and keeps opts.resume.
StartWith(resume) ==
  /\ pc = "off"
  /\ nextId <= MaxStarts
  /\ pc' = "constructed"
  /\ outcome' = "none"
  /\ sess' = [id |-> nextId, state |-> "idle", agents |-> <<>>,
              resume |-> resume]
  /\ nextId' = nextId + 1
  /\ loadInfo' = [found |-> "none", stored |-> 0, fresh |-> nextId]
  /\ plan' = NoPlan
  /\ log' = <<>>
  /\ UNCHANGED <<doc, files, quick, surface, briefs, provisioned, nDisp, fnVars>>

\* `zeroclaw start`.
Start == StartWith(FALSE)

\* `zeroclaw start --resume`.
StartResume == StartWith(TRUE)

\* Session._ensureDirs.
EnsureDirs ==
  /\ pc = "constructed"
  /\ pc' = "dirs"
  /\ UNCHANGED <<outcome, sess, doc, loadInfo, nextId, files, quick, surface,
                 briefs, provisioned, plan, log, nDisp, fnVars>>

\* start() loading the session document before _ensureDirs.
LoadOrInitState_first ==
  /\ pc = "constructed"
  /\ loadInfo' = [loadInfo EXCEPT
                    !.found = IF doc.kind = "ok" THEN doc.status ELSE doc.kind,
                    !.stored = doc.id]
  /\ IF doc.kind = "corrupt"
     THEN /\ pc' = "off"
          /\ outcome' = "crashed-load"
          /\ UNCHANGED <<sess, doc>>
     ELSE /\ sess' = [sess EXCEPT !.id = ResumeId(doc, sess.id)]
          /\ doc' = SaveState(sess', "active")
          /\ pc' = "loaded"
          /\ UNCHANGED outcome
  /\ UNCHANGED <<nextId, files, quick, surface, briefs, provisioned, plan, log,
                 nDisp, fnVars>>

\* Session._loadOrInitState: readJson throws on a malformed document and
\* nothing catches it, so start() rejects.
LoadOrInitState ==
  /\ pc = "dirs"
  /\ loadInfo' = [loadInfo EXCEPT
                    !.found = IF doc.kind = "ok" THEN doc.status ELSE doc.kind,
                    !.stored = doc.id]
  /\ IF doc.kind = "corrupt"
     THEN /\ pc' = "off"
          /\ outcome' = "crashed-load"
          /\ UNCHANGED <<sess, doc>>
     ELSE /\ sess' = [sess EXCEPT !.id = ResumeId(doc, sess.id)]
          /\ doc' = SaveState(sess', "active")
          /\ pc' = "loaded"
          /\ UNCHANGED outcome
  /\ UNCHANGED <<nextId, files, quick, surface, briefs, provisioned, plan, log,
                 nDisp, fnVars>>

\* Session.start, git.ensureRepo: when rev-parse fails, git init runs
\* unguarded.
EnsureRepo ==
  /\ pc = "loaded"
  /\ \E gitOk \in BOOLEAN :
       IF gitOk THEN pc' = "loop" /\ UNCHANGED outcome
       ELSE pc' = "off" /\ outcome' = "crashed-git"
  /\ UNCHANGED <<sess, doc, loadInfo, nextId, files, quick, surface, briefs,
                 provisioned, plan, log, nDisp, fnVars>>

\* Conversation.loop, an iteration on a blank input or an unknown intent.
ConverseIgnored ==
  /\ pc = "loop"
  /\ \E input \in Inputs : input.blank \/ ClassifyIntent(input) = "unknown"
  /\ UNCHANGED vars

\* The iteration on exit without its break: the loop prompts again.
ConverseExit_stay ==
  /\ pc = "loop"
  /\ \E input \in Inputs : ~input.blank /\ ClassifyIntent(input) = "exit"
  /\ pc' = "loop"
  /\ plan' = NoPlan
  /\ log' = Dispatching("exit").log
  /\ UNCHANGED <<outcome, sess, doc, loadInfo, nextId, files, quick, surface,
                 briefs, provisioned, nDisp, fnVars>>

\* Conversation.loop, an iteration on exit: dispatch('exit'), then break.
ConverseExit ==
  /\ pc = "loop"
  /\ \E input \in Inputs : ~input.blank /\ ClassifyIntent(input) = "exit"
  /\ pc' = "exiting"
  /\ plan' = NoPlan
  /\ log' = Dispatching("exit").log
  /\ UNCHANGED <<outcome, sess, doc, loadInfo, nextId, files, quick, surface,
                 briefs, provisioned, nDisp, fnVars>>

\* Session.dispatch running the planner on every intent but exit.
ConversePlan_any ==
  /\ pc = "loop"
  /\ nDisp < MaxDispatch
  /\ \E input \in Inputs, g \in GsdOutcomes :
       /\ ~input.blank
       /\ ClassifyIntent(input) # "exit"
       /\ LET w == PlannerRun(Emit(Dispatching(ClassifyIntent(input)),
                                   "planner.run", "", TRUE),
                              ClassifyIntent(input), g)
          IN  /\ files' = w.files
              /\ sess' = w.sess
              /\ doc' = w.doc
              /\ quick' = w.quick
              /\ plan' = w.plan
              /\ log' = w.log
              /\ pc' = IF w.plan # NoPlan THEN "distributing" ELSE "loop"
  /\ nDisp' = nDisp + 1
  /\ UNCHANGED <<outcome, loadInfo, nextId, surface, briefs, provisioned,
                 fnVars>>

\* Conversation.loop on project_init or new_task, up to Session.dispatch
\* holding the planner's answer: Distributor.run follows when it is a plan.
\* The plan of an earlier dispatch is dropped: plan is this dispatch's.
PlanIteration(limit) ==
  /\ pc = "loop"
  /\ nDisp < limit
  /\ \E input \in Inputs, g \in GsdOutcomes :
       /\ ~input.blank
       /\ ClassifyIntent(input) \in {"project_init", "new_task"}
       /\ LET w == PlannerRun(Emit(Dispatching(ClassifyIntent(input)),
                                   "planner.run", "", TRUE),
                              ClassifyIntent(input), g)
          IN  /\ files' = w.files
              /\ sess' = w.sess
              /\ doc' = w.doc
              /\ quick' = w.quick
              /\ plan' = w.plan
              /\ log' = w.log
              /\ IF w.thrown
                 THEN pc' = "off" /\ outcome' = "crashed-dispatch"
                 ELSE /\ pc' = IF w.plan # NoPlan THEN "distributing" ELSE "loop"
                      /\ UNCHANGED outcome
  /\ nDisp' = nDisp + 1
  /\ UNCHANGED <<loadInfo, nextId, surface, briefs, provisioned, fnVars>>

ConversePlan == PlanIteration(MaxDispatch)

\* Session.dispatch awaiting the workers that Distributor.run launched.
Distribute_wait ==
  /\ pc = "distributing"
  /\ \E up \in UpChoices, fail \in FailPoints :
       LET w == DistRun(Emit([World EXCEPT !.log = log, !.plan = plan],
                             "dist.run", "", TRUE),
                        plan, up, fail)
       IN  /\ files' = w.files
           /\ sess' = w.sess
           /\ doc' = w.doc
           /\ surface' = w.surface
           /\ briefs' = w.briefs
           /\ provisioned' = w.provisioned
           /\ log' = w.log
           /\ IF w.thrown
              THEN pc' = "off" /\ outcome' = "crashed-dispatch"
              ELSE /\ pc' = IF \E i \in 1..Len(w.surface.windows) :
                                 /\ w.surface.windows[i].cmd \in AgentNames
                                 /\ ~w.surface.windows[i].done
                            THEN "awaiting" ELSE "loop"
                   /\ UNCHANGED outcome
  /\ UNCHANGED <<loadInfo, nextId, quick, plan, nDisp, fnVars>>

\* Session.dispatch, Distributor.run(plan): an exception leaves dispatch,
\* the loop and start().
Distribute ==
  /\ pc = "distributing"
  /\ \E up \in UpChoices, fail \in FailPoints :
       LET w == DistRun(Emit([World EXCEPT !.log = log, !.plan = plan],
                             "dist.run", "", TRUE),
                        plan, up, fail)
       IN  /\ files' = w.files
           /\ sess' = w.sess
           /\ doc' = w.doc
           /\ surface' = w.surface
           /\ briefs' = w.briefs
           /\ provisioned' = w.provisioned
           /\ log' = w.log
           /\ IF w.thrown
              THEN pc' = "off" /\ outcome' = "crashed-dispatch"
              ELSE pc' = "loop" /\ UNCHANGED outcome
  /\ UNCHANGED <<loadInfo, nextId, quick, plan, nDisp, fnVars>>

\* Conversation.loop on continue: Distributor.resumeFromState.
ContinueIteration(limit) ==
  /\ pc = "loop"
  /\ nDisp < limit
  /\ \E input \in Inputs, up \in UpChoices, fail \in FailPoints :
       /\ ~input.blank
       /\ ClassifyIntent(input) = "continue"
       /\ LET w == ResumeFromState(Emit(Dispatching("continue"), "dist.resume",
                                         "", TRUE),
                                    up, fail)
          IN  /\ sess' = w.sess
              /\ doc' = w.doc
              /\ surface' = w.surface
              /\ provisioned' = w.provisioned
              /\ log' = w.log
              /\ IF w.thrown
                 THEN pc' = "off" /\ outcome' = "crashed-dispatch"
                 ELSE UNCHANGED <<pc, outcome>>
  /\ nDisp' = nDisp + 1
  /\ UNCHANGED <<loadInfo, nextId, files, quick, briefs, plan, fnVars>>

ConverseContinue == ContinueIteration(MaxDispatch)

\* Session.start after the loop: _saveState({status: 'ended', endedAt}).
Teardown ==
  /\ pc = "exiting"
  /\ doc' = SaveState(sess, "ended")
  /\ pc' = "off"
  /\ outcome' = "returned"
  /\ UNCHANGED <<sess, loadInfo, nextId, files, quick, surface, briefs,
                 provisioned, plan, log, nDisp, fnVars>>

\* A shutdown that archives the session on its way out.
Interrupt_archive ==
  /\ pc # "off"
  /\ pc' = "off"
  /\ outcome' = "killed"
  /\ plan' = NoPlan
  /\ log' = <<>>
  /\ doc' = IF pc \in {"loaded", "loop", "distributing", "exiting"}
            THEN SaveState(sess, "ended") ELSE doc
  /\ UNCHANGED <<sess, loadInfo, nextId, files, quick, surface, briefs,
                 provisioned, nDisp, fnVars>>

\* The supervisor process is shut down from outside, between two steps.
Interrupt ==
  /\ pc # "off"
  /\ pc' = "off"
  /\ outcome' = "killed"
  /\ plan' = NoPlan
  /\ log' = <<>>
  /\ UNCHANGED <<sess, doc, loadInfo, nextId, files, quick, surface, briefs,
                 provisioned, nDisp, fnVars>>

\* The supervisor process is shut down while fs.writeJson is writing the
\* document: the file is left truncated.
InterruptDuringSave ==
  /\ \/ pc = "dirs" /\ doc.kind # "corrupt"
     \/ pc = "exiting"
  /\ doc' = CorruptDoc
  /\ pc' = "off"
  /\ outcome' = "killed"
  /\ plan' = NoPlan
  /\ log' = <<>>
  /\ UNCHANGED <<sess, loadInfo, nextId, files, quick, surface, briefs,
                 provisioned, nDisp, fnVars>>

Next ==
  \/ Start
  \/ EnsureDirs
  \/ LoadOrInitState
  \/ EnsureRepo
  \/ ConverseIgnored
  \/ ConverseExit
  \/ ConversePlan
  \/ Distribute
  \/ ConverseContinue
  \/ Teardown
  \/ Interrupt
  \/ InterruptDuringSave

Spec == Init /\ [][Next]_vars

(***************************************************************************)
(* The supervisor left to run: nothing stops the process from outside, and *)
(* start(), once its loop has ended, goes on to its teardown.              *)
(***************************************************************************)
NextUninterrupted ==
  \/ Start
  \/ EnsureDirs
  \/ LoadOrInitState
  \/ EnsureRepo
  \/ ConverseIgnored
  \/ ConverseExit
  \/ ConversePlan
  \/ Distribute
  \/ ConverseContinue
  \/ Teardown

SpecLive == Init /\ [][NextUninterrupted]_vars /\ WF_vars(Teardown)

(***************************************************************************)
(* _assignTasks on its own: every task list of at most MaxTasks tasks and  *)
(* every non-empty list of distinct workers.                               *)
(***************************************************************************)
TaskPool == {"A", "B"}

TaskLists == UNION {[1..n -> TaskPool] : n \in 0..MaxTasks}

WorkerLists ==
  {ws \in UNION {[1..n -> AgentNames] : n \in 1..Len(AGENTS)} :
     \A i, j \in 1..Len(ws) : i # j => ws[i] # ws[j]}

InitAssign ==
  /\ pc = "off"
  /\ outcome = "none"
  /\ sess = [id |-> 0, state |-> "idle", agents |-> <<>>, resume |-> FALSE]
  /\ doc = NoDoc
  /\ loadInfo = [found |-> "none", stored |-> 0, fresh |-> 0]
  /\ nextId = 1
  /\ files = FreshWorkspace
  /\ quick = [n \in QuickNames |-> [dir |-> FALSE, plan |-> Absent]]
  /\ surface = NoSurface
  /\ briefs = [a \in AgentNames |-> [exists |-> FALSE, tasks |-> <<>>]]
  /\ provisioned = {}
  /\ plan = NoPlan
  /\ log = <<>>
  /\ nDisp = 0
  /\ fnArgs \in [tasks : TaskLists, agents : WorkerLists]
  /\ fnRes = [done |-> FALSE, val |-> <<>>]
  /\ peers = NoPeers

Assign ==
  /\ ~fnRes.done
  /\ fnRes' = [done |-> TRUE, val |-> AssignTasks(fnArgs.tasks, fnArgs.agents)]
  /\ UNCHANGED <<sysVars, fnArgs, peers>>

NextAssign == Assign

SpecAssign == InitAssign /\ [][NextAssign]_vars

(***************************************************************************)
(* Two supervisor processes started on one workspace.  Each await of       *)
(* _loadOrInitState (pathExists, readJson, writeJson) is a step of its     *)
(* own, so the steps of the two processes interleave; nothing in the code  *)
(* locks the workspace.                                                    *)
(***************************************************************************)
InitPeers ==
  /\ pc = "off"
  /\ outcome = "none"
  /\ sess = [id |-> 0, state |-> "idle", agents |-> <<>>, resume |-> FALSE]
  /\ doc = NoDoc
  /\ loadInfo = [found |-> "none", stored |-> 0, fresh |-> 0]
  /\ nextId = 1
  /\ files = FreshWorkspace
  /\ quick = [n \in QuickNames |-> [dir |-> FALSE, plan |-> Absent]]
  /\ surface = NoSurface
  /\ briefs = [a \in AgentNames |-> [exists |-> FALSE, tasks |-> <<>>]]
  /\ provisioned = {}
  /\ plan = NoPlan
  /\ log = <<>>
  /\ nDisp = 0
  /\ fnArgs = [tasks |-> <<>>, agents |-> <<>>]
  /\ fnRes = [done |-> FALSE, val |-> <<>>]
  /\ peers = NoPeers

PeerFrame ==
  UNCHANGED <<pc, outcome, sess, loadInfo, files, quick, surface, briefs,
              provisioned, plan, log, nDisp, fnArgs, fnRes>>

\* new Session(opts) and _ensureDirs in process p.
PeerStart(p) ==
  /\ peers[p].pc = "off"
  /\ nextId <= MaxStarts + 1
  /\ peers' = [peers EXCEPT ![p] = [pc |-> "dirs", id |-> nextId]]
  /\ nextId' = nextId + 1
  /\ UNCHANGED doc
  /\ PeerFrame

\* _loadOrInitState: await fs.pathExists(this.stateFile).
PeerPathExists(p) ==
  /\ peers[p].pc = "dirs"
  /\ peers' = [peers EXCEPT ![p].pc =
                 IF doc.kind = "absent" THEN "save" ELSE "read"]
  /\ UNCHANGED <<doc, nextId>>
  /\ PeerFrame

\* _loadOrInitState: await fs.readJson(this.stateFile) and the test on it.
PeerReadJson(p) ==
  /\ peers[p].pc = "read"
  /\ peers' = [peers EXCEPT ![p] =
                 IF doc.kind = "corrupt" THEN [@ EXCEPT !.pc = "off"]
                 ELSE [pc |-> "save", id |-> ResumeId(doc, @.id)]]
  /\ UNCHANGED <<doc, nextId>>
  /\ PeerFrame

\* _loadOrInitState: await this._saveState({status: 'active'}); start() goes
\* on to the conversation loop.
PeerSaveActive(p) ==
  /\ peers[p].pc = "save"
  /\ doc' = SaveState([id |-> peers[p].id, agents |-> <<>>], "active")
  /\ peers' = [peers EXCEPT ![p].pc = "loop"]
  /\ UNCHANGED nextId
  /\ PeerFrame

\* The loop of process p ends on exit and start() saves 'ended'.
PeerExit(p) ==
  /\ peers[p].pc = "loop"
  /\ doc' = SaveState([id |-> peers[p].id, agents |-> <<>>], "ended")
  /\ peers' = [peers EXCEPT ![p].pc = "off"]
  /\ UNCHANGED nextId
  /\ PeerFrame

NextPeers ==
  \E p \in Procs :
    \/ PeerStart(p)
    \/ PeerPathExists(p)
    \/ PeerReadJson(p)
    \/ PeerSaveActive(p)
    \/ PeerExit(p)

SpecPeers == InitPeers /\ [][NextPeers]_vars

(***************************************************************************)
(* _writePlanArtifacts called twice in one workspace: every workspace in   *)
(* which implement.md and PLAN.md are there or not, and every two plans.   *)
(***************************************************************************)
ArtifactPlans ==
  {[type |-> "project", phase |-> NoPhase, tasks |-> ts,
    files |-> [n \in Range(PlanNames) |->
                 IF n = "PLAN.md" THEN pm
                 ELSE IF n = "ROADMAP.md" THEN rm ELSE Absent]] :
     ts \in {<<<<"a">>>>, <<<<"b">>, <<"a">>>>},
     pm \in {Absent, File(TextTwo), File(TextThree)},
     rm \in {Absent, File(RoadmapOne), File(RoadmapZero)}}

ArtifactWorkspaces ==
  {[FreshWorkspace EXCEPT ![<<PlanDir, "implement.md">>] = im,
                          ![<<PlanDir, "PLAN.md">>] = pm] :
     im \in {Absent, File(TextNotes)}, pm \in {Absent, File(TextNotes)}}

InitArtifacts ==
  /\ pc = "off"
  /\ outcome = "none"
  /\ sess = [id |-> 0, state |-> "idle", agents |-> <<>>, resume |-> FALSE]
  /\ doc = NoDoc
  /\ loadInfo = [found |-> "none", stored |-> 0, fresh |-> 0]
  /\ nextId = 1
  /\ files \in ArtifactWorkspaces
  /\ quick = [n \in QuickNames |-> [dir |-> FALSE, plan |-> Absent]]
  /\ surface = NoSurface
  /\ briefs = [a \in AgentNames |-> [exists |-> FALSE, tasks |-> <<>>]]
  /\ provisioned = {}
  /\ plan = NoPlan
  /\ log = <<>>
  /\ nDisp = 0
  /\ fnArgs \in [before : {files}, first : ArtifactPlans, second : ArtifactPlans]
  /\ fnRes = [calls |-> 0, between |-> files]
  /\ peers = NoPeers

WriteFirst ==
  /\ fnRes.calls = 0
  /\ files' = WritePlanArtifacts(World, fnArgs.first).files
  /\ fnRes' = [calls |-> 1, between |-> files']
  /\ UNCHANGED <<pc, outcome, sess, doc, loadInfo, nextId, quick, surface,
                 briefs, provisioned, plan, log, nDisp, fnArgs, peers>>

WriteSecond ==
  /\ fnRes.calls = 1
  /\ files' = WritePlanArtifacts(World, fnArgs.second).files
  /\ fnRes' = [fnRes EXCEPT !.calls = 2]
  /\ UNCHANGED <<pc, outcome, sess, doc, loadInfo, nextId, quick, surface,
                 briefs, provisioned, plan, log, nDisp, fnArgs, peers>>

NextArtifacts == WriteFirst \/ WriteSecond

SpecArtifacts == InitArtifacts /\ [][NextArtifacts]_vars

(***************************************************************************)
(* _extractTasks on its own: every plan document of at most MaxLines lines *)
(* drawn from LinePool, joined by line feeds.                              *)
(***************************************************************************)
MaxLines == 3

LinePool ==
  {<<"-", " ", "[", " ", "]", " ", "a">>,
   <<" ", "*", " ", "[", "X", "]", " ", "b", " ">>,
   <<"n", "o", "t", "e">>,
   <<"-", " ", "[", " ", "]", " ">>,
   <<"-", "[", "x", "]", "c", " ", "d">>,
   <<>>}

RECURSIVE JoinLines(_, _)
JoinLines(lines, i) ==
  IF i > Len(lines) THEN <<>>
  ELSE lines[i] \o (IF i < Len(lines) THEN <<"\n">> ELSE <<>>)
       \o JoinLines(lines, i + 1)

InitExtract ==
  /\ pc = "off"
  /\ outcome = "none"
  /\ sess = [id |-> 0, state |-> "idle", agents |-> <<>>, resume |-> FALSE]
  /\ doc = NoDoc
  /\ loadInfo = [found |-> "none", stored |-> 0, fresh |-> 0]
  /\ nextId = 1
  /\ files = FreshWorkspace
  /\ quick = [n \in QuickNames |-> [dir |-> FALSE, plan |-> Absent]]
  /\ surface = NoSurface
  /\ briefs = [a \in AgentNames |-> [exists |-> FALSE, tasks |-> <<>>]]
  /\ provisioned = {}
  /\ plan = NoPlan
  /\ log = <<>>
  /\ nDisp = 0
  /\ fnArgs \in [lines : UNION {[1..n -> LinePool] : n \in 0..MaxLines}]
  /\ fnRes = [done |-> FALSE, val |-> <<>>]
  /\ peers = NoPeers

Extract ==
  /\ ~fnRes.done
  /\ fnRes' = [done |-> TRUE, val |-> ExtractTasks(JoinLines(fnArgs.lines, 1))]
  /\ UNCHANGED <<sysVars, fnArgs, peers>>

NextExtract == Extract

SpecExtract == InitExtract /\ [][NextExtract]_vars

(***************************************************************************)
(* _readQuickPlan on its own: every set of subdirectories of               *)
(* .planning/quick named in QuickEntries, each with a PLAN.md or without.  *)
(***************************************************************************)
QuickEntries == {<<0, 0, 1>>, <<0, 0, 2>>, <<1, 0>>, <<9>>}

InitQuick ==
  /\ pc = "off"
  /\ outcome = "none"
  /\ sess = [id |-> 0, state |-> "idle", agents |-> <<>>, resume |-> FALSE]
  /\ doc = NoDoc
  /\ loadInfo = [found |-> "none", stored |-> 0, fresh |-> 0]
  /\ nextId = 1
  /\ files = FreshWorkspace
  /\ quick = [n \in QuickNames |-> [dir |-> FALSE, plan |-> Absent]]
  /\ surface = NoSurface
  /\ briefs = [a \in AgentNames |-> [exists |-> FALSE, tasks |-> <<>>]]
  /\ provisioned = {}
  /\ plan = NoPlan
  /\ log = <<>>
  /\ nDisp = 0
  /\ fnArgs \in [q : [QuickEntries ->
                         {[dir |-> FALSE, plan |-> Absent],
                          [dir |-> TRUE, plan |-> Absent],
                          [dir |-> TRUE, plan |-> File(TextTwo)],
                          [dir |-> TRUE, plan |-> File(TextThree)]}]]
  /\ fnRes = [done |-> FALSE, val |-> NoPlan]
  /\ peers = NoPeers

ReadQuick ==
  /\ ~fnRes.done
  /\ fnRes' = [done |-> TRUE, val |-> ReadQuickPlan(fnArgs.q)]
  /\ UNCHANGED <<sysVars, fnArgs, peers>>

NextQuick == ReadQuick

SpecQuick == InitQuick /\ [][NextQuick]_vars

(***************************************************************************)
(* Claims about _assignTasks, under SpecAssign.                            *)
(***************************************************************************)
Count(seq, x) == Cardinality({i \in 1..Len(seq) : seq[i] = x})

RECURSIVE SumOver(_, _, _)
SumOver(f, ws, i) == IF i > Len(ws) THEN 0 ELSE f[ws[i]] + SumOver(f, ws, i + 1)

\* C1: task i (0-based) is in the list of worker available[i mod M], and each
\* worker's list holds its tasks in the plan's order: the list of the worker
\* at 0-based position j is tasks[j], tasks[j + M], tasks[j + 2M], ...; tasks
\* A..E over w1, w2 give w1: A, C, E and w2: B, D.
C1_RoundRobin ==
  /\ fnRes.done =>
       LET tasks  == fnArgs.tasks
           agents == fnArgs.agents
           M      == Len(agents)
           N      == Len(tasks)
       IN  /\ DOMAIN fnRes.val = Range(agents)
           /\ \A j \in 1..M :
                LET n == Cardinality({i \in 1..N : (i - 1) % M = j - 1})
                IN  /\ Len(fnRes.val[agents[j]]) = n
                    /\ \A k \in 1..n :
                         fnRes.val[agents[j]][k] = tasks[j + (k - 1) * M]
  /\ AssignTasks(<<"A", "B", "C", "D", "E">>, <<"w1", "w2">>)
       = [w1 |-> <<"A", "C", "E">>, w2 |-> <<"B", "D">>]

C1_Witness ==
  /\ fnRes.done
  /\ fnArgs.tasks = <<"A", "B", "B", "A">>
  /\ fnArgs.agents = <<"codex", "gemini", "opencode">>
  /\ fnRes.val["codex"] = <<"A", "A">>

\* C2: every task value occurs in the workers' lists together as often as in
\* the plan, and the lists together hold as many tasks as the plan.
C2_NoLossNoDuplication ==
  fnRes.done =>
    /\ \A t \in TaskPool :
         SumOver([a \in Range(fnArgs.agents) |-> Count(fnRes.val[a], t)],
                 fnArgs.agents, 1) = Count(fnArgs.tasks, t)
    /\ SumOver([a \in Range(fnArgs.agents) |-> Len(fnRes.val[a])],
               fnArgs.agents, 1) = Len(fnArgs.tasks)

C2_Witness ==
  /\ fnRes.done
  /\ fnArgs.tasks = <<"A", "A", "B">>
  /\ Len(fnArgs.agents) = 2
  /\ \E a \in Range(fnArgs.agents) : fnRes.val[a] = <<"A", "B">>

\* C3: with N tasks and M workers every worker's list has floor(N/M) or
\* ceil(N/M) tasks, so two lists differ in length by at most one.
C3_Balance ==
  fnRes.done =>
    LET M == Len(fnArgs.agents)
        N == Len(fnArgs.tasks)
    IN  /\ \A a \in Range(fnArgs.agents) :
             Len(fnRes.val[a]) \in {N \div M, (N + M - 1) \div M}
        /\ \A a, b \in Range(fnArgs.agents) :
             Len(fnRes.val[a]) - Len(fnRes.val[b]) \in {-1, 0, 1}

C3_Witness ==
  /\ fnRes.done
  /\ Len(fnArgs.tasks) = 4
  /\ Len(fnArgs.agents) = 3
  /\ \E a, b \in Range(fnArgs.agents) :
       Len(fnRes.val[a]) = 2 /\ Len(fnRes.val[b]) = 1

(***************************************************************************)
(* Claims about the supervisor, under Spec.  log holds the external        *)
(* invocations of the dispatch in progress or last finished.               *)
(***************************************************************************)
InRun(l) == \E i \in 1..Len(l) : l[i].op = "dist.run"

PlanFailed(l) == \E i \in 1..Len(l) : l[i].op = "gsd" /\ ~l[i].ok

\* The workers the probe of the dispatch answered for, in registry order.
Probed(l) ==
  SelectSeq(AGENTS, LAMBDA a :
    \E i \in 1..Len(l) : l[i] = [op |-> "probe", arg |-> a, ok |-> TRUE])

ProbedNone(l) ==
  /\ \E i \in 1..Len(l) : l[i].op = "probe"
  /\ \A i \in 1..Len(l) : l[i].op = "probe" => ~l[i].ok

LaunchFailed(l, a) ==
  \E i \in 1..Len(l) :
    l[i].op \in {"new-window", "cd-keys", "cmd-keys"} /\ l[i].arg = a /\ ~l[i].ok

\* C4: a start() that found a document whose status is not 'ended' goes on
\* with the identifier stored in it and persists that identifier; a start()
\* that found an 'ended' document or none goes on with the identifier its
\* constructor generated, which differs from the stored one.
C4_IdempotentResume ==
  pc \in {"loaded", "loop", "distributing", "exiting"} =>
    /\ loadInfo.found = "active" =>
         sess.id = loadInfo.stored /\ doc.id = loadInfo.stored
    /\ loadInfo.found \in {"ended", "absent"} =>
         /\ sess.id = loadInfo.fresh
         /\ sess.id # loadInfo.stored
         /\ doc.id = loadInfo.fresh
    /\ doc.status = "active"

C4_Witness ==
  /\ pc = "loop"
  /\ loadInfo.found = "active"
  /\ sess.id = loadInfo.stored
  /\ loadInfo.fresh # loadInfo.stored

\* C5: a start() that found a malformed session document does not fail: it
\* goes on with a fresh identifier.
C5_CorruptionNotFatal ==
  loadInfo.found = "corrupt" =>
    outcome # "crashed-load" /\ sess.id = loadInfo.fresh /\ doc.kind = "ok"

\* C6: when a worker's window creation or launch command fails during
\* Distributor.run, the launch of every later worker of the iteration order
\* is still attempted and no exception leaves the run.
C6_PartialLaunchResilience ==
  InRun(log) =>
    LET order == Probed(log)
    IN  \A k \in 1..Len(order) :
          LaunchFailed(log, order[k]) =>
            /\ outcome # "crashed-dispatch"
            /\ \A j \in (k + 1)..Len(order) :
                 \E i \in 1..Len(log) :
                   log[i].op = "new-window" /\ log[i].arg = order[j]

\* C7: the plan reader never answers a plan without tasks, and
\* Distributor.run is invoked only with a plan whose task list is non-empty.
C7_NoEmptyPlanDistributed ==
  /\ plan # NoPlan => Len(plan.tasks) > 0
  /\ (pc = "distributing" \/ InRun(log)) => Len(plan.tasks) > 0

\* C8 as claimed: a dispatch in which a planning invocation failed ends with
\* no plan and without Distributor.run, whatever is on disk.
C8_FailureMeansNoPlan ==
  PlanFailed(log) => plan = NoPlan /\ pc # "distributing" /\ ~InRun(log)

\* The document on disk a plan was read from.
PlanOnDisk(p) ==
  CASE p.type = "project" -> Get(files, <<PlanDir, "PLAN.md">>) = p.files["PLAN.md"]
    [] p.type = "phase"   -> Get(files, <<PhaseDir(p.phase), "PLAN.md">>)
                               = p.files["PLAN.md"]
    [] p.type = "quick"   -> \E n \in QuickNames :
                               quick[n].dir /\ quick[n].plan = p.files["PLAN.md"]
    [] OTHER              -> FALSE

\* C8 amended: a failed planning invocation never ends start(); the plan is
\* then read from disk all the same.  Distributor.run is invoked exactly
\* when that read answers a plan, whose PLAN.md is the one on disk, and
\* otherwise control is back at the prompt.
C8_FailureReadsDisk ==
  PlanFailed(log) =>
    /\ (pc = "distributing" \/ InRun(log)) <=> plan # NoPlan
    /\ plan = NoPlan => pc = "loop" /\ outcome = "none"
    /\ plan # NoPlan => PlanOnDisk(plan)
    /\ pc = "off" => outcome = "crashed-dispatch" /\ InRun(log)

C8_Witness ==
  /\ PlanFailed(log)
  /\ pc = "distributing"
  /\ plan.type = "project"
  /\ plan.tasks = <<<<"a">>, <<"b">>>>

\* C9: a Distributor.run whose probe finds no worker returns to the loop and
\* leaves the provisioning, the plan artifacts, the briefs, the surface, the
\* session's fields and the session document as they were.
C9_NoWorkersNoEffect ==
  [][(pc = "distributing" /\ ProbedNone(log'))
       => /\ pc' = "loop"
          /\ UNCHANGED <<provisioned, files, quick, briefs, surface, sess, doc,
                         outcome>>]_vars

C9_Witness ==
  /\ pc = "loop"
  /\ InRun(log)
  /\ ProbedNone(log)
  /\ plan # NoPlan
  /\ ~Get(files, <<PlanDir, "implement.md">>).exists

\* C10: a failed external invocation during a dispatch does not end start():
\* the supervisor is still in its loop.
C10_NeverCrashes ==
  (\E i \in 1..Len(log) : log[i].op # "probe" /\ ~log[i].ok) =>
    outcome # "crashed-dispatch" /\ pc \in {"loop", "distributing"}

\* The intent of the dispatch the log belongs to.
Intent(l) == IF l # <<>> /\ l[1].op = "dispatch" THEN l[1].arg ELSE "none"

Invoked(l, op) == \E i \in 1..Len(l) : l[i].op = op

\* C11: the document is 'active' under the session's identifier whenever
\* the loop is accepting input; start() returns only from the teardown that
\* follows the exit that ended the loop; and when start() has returned the
\* document has status 'ended' and an endedAt field.
C11_StartBrackets ==
  /\ [](pc = "loop" =>
          doc.kind = "ok" /\ doc.status = "active" /\ doc.id = sess.id)
  /\ [](outcome = "returned" =>
          pc = "off" /\ doc.kind = "ok" /\ doc.status = "ended" /\ doc.endedAt)
  /\ [][(outcome' = "returned" /\ outcome # "returned")
          => pc = "exiting" /\ Intent(log) = "exit"]_vars
  /\ [][(pc' = "exiting" /\ pc # "exiting") => pc = "loop"]_vars

C11_Witness ==
  /\ outcome = "returned"
  /\ doc.status = "ended"
  /\ doc.endedAt
  /\ doc.id = sess.id

C13_IntentLegality ==
  /\ log # <<>> =>
       Intent(log) \in {"project_init", "new_task", "continue", "exit"}
  /\ Invoked(log, "planner.run") <=> Intent(log) \in {"project_init", "new_task"}
  /\ (Invoked(log, "gsd") \/ Invoked(log, "dist.run")) =>
       Intent(log) \in {"project_init", "new_task"}
  /\ Invoked(log, "dist.resume") <=> Intent(log) = "continue"

C13_Witness ==
  /\ Intent(log) = "continue"
  /\ Invoked(log, "dist.resume")
  /\ Invoked(log, "clone")
  /\ ~Invoked(log, "planner.run")

\* C14: the session's state attribute follows the state machine: idle
\* during startup, conversing or agents_running at the prompt, distributing
\* while the distributor is due, session_end after exit.
C14_StateTracks ==
  /\ pc \in {"constructed", "dirs", "loaded"} => sess.state = "idle"
  /\ pc = "loop" => sess.state \in {"conversing", "agents_running"}
  /\ pc = "distributing" => sess.state = "distributing"
  /\ pc = "exiting" => sess.state = "session_end"

\* C16: a dispatch of project_init, new_task or continue leaves the session
\* document, the session identifier and the agent list as they were.
C16_SingleWriter ==
  [][(log' # log /\ Intent(log') \in {"project_init", "new_task", "continue"})
       => UNCHANGED <<doc, sess>>]_vars

C16_Witness ==
  /\ pc = "loop"
  /\ InRun(log)
  /\ Invoked(log, "select-layout")
  /\ Len(surface.windows) > 1
  /\ doc = SaveState(sess, "active")
  /\ sess.agents = <<>>

\* C20: in a distribution cycle no worker window is created before the
\* surface with its supervisor window was created and the status script
\* sent to it; the supervisor window is the first of the surface.
C20_StatusPaneFirst ==
  /\ InRun(log) =>
       \A i \in 1..Len(log) :
         (log[i].op = "new-window" /\ log[i].arg \in AgentNames) =>
           \E j, k \in 1..(i - 1) :
             /\ j < k
             /\ log[j] = [op |-> "new-session", arg |-> "", ok |-> TRUE]
             /\ log[k] = [op |-> "status-keys", arg |-> "", ok |-> TRUE]
  /\ surface.up =>
       /\ surface.windows[1].name = "supervisor"
       /\ (\E i \in 2..Len(surface.windows) :
             surface.windows[i].name \in AgentNames)
            => surface.windows[1].cmd = "status"

C20_Witness ==
  /\ InRun(log)
  /\ Invoked(log, "select-layout")
  /\ Len(surface.windows) = 3
  /\ surface.windows[3].name = "codex"

(***************************************************************************)
(* Claims about _writePlanArtifacts, under SpecArtifacts.                  *)
(***************************************************************************)
\* C17: _writePlanArtifacts leaves every document that exists at its
\* destination as it is: what was in .planning before the first call is
\* still there after it, and what is there after the first call, written by
\* it or not, is still there after the second.
C17_WriteOnce ==
  /\ fnRes.calls >= 1 =>
       \A k \in FileKeys :
         fnArgs.before[k].exists => fnRes.between[k] = fnArgs.before[k]
  /\ fnRes.calls = 2 =>
       \A k \in FileKeys :
         fnRes.between[k].exists => files[k] = fnRes.between[k]

C17_Witness ==
  /\ fnRes.calls = 2
  /\ ~fnArgs.before[<<PlanDir, "implement.md">>].exists
  /\ ~fnArgs.before[<<PlanDir, "PLAN.md">>].exists
  /\ fnArgs.first.tasks # fnArgs.second.tasks
  /\ fnArgs.first.files["PLAN.md"] = File(TextTwo)
  /\ fnArgs.second.files["PLAN.md"] = File(TextThree)
  /\ files[<<PlanDir, "implement.md">>] = File(ImplText(fnArgs.first.tasks))
  /\ files[<<PlanDir, "PLAN.md">>] = File(TextTwo)

(***************************************************************************)
(* Claims about _extractTasks, under SpecExtract.                          *)
(***************************************************************************)
ExampleText ==
  <<"-", " ", "[", " ", "]", " ", "b", "u", "i", "l", "d", " ", "l", "o",
    "g", "i", "n", "\n", "-", " ", "[", "x", "]", " ", "w", "r", "i", "t",
    "e", " ", "t", "e", "s", "t", "s", "\n", "n", "o", "t", "e", "s", " ",
    "h", "e", "r", "e", "\n", "-", " ", "[", " ", "]", " ", "d", "e", "p",
    "l", "o", "y">>

ExampleTasks ==
  <<
  <<"b", "u", "i", "l", "d", " ", "l", "o", "g", "i", "n">>,
  <<"w", "r", "i", "t", "e", " ", "t", "e", "s", "t", "s">>,
  <<"d", "e", "p", "l", "o", "y">>
  >>

HasBox(line) == \E i \in 1..Len(line) : line[i] = "["

\* C18: _extractTasks answers the three tasks of the example plan; a line
\* without a box contributes nothing, a line at most one task; and every
\* extracted task is a non-empty description.
C18_TaskExtraction ==
  /\ ExtractTasks(ExampleText) = ExampleTasks
  /\ fnRes.done =>
       /\ Len(fnRes.val)
            <= Cardinality({i \in 1..Len(fnArgs.lines) : HasBox(fnArgs.lines[i])})
       /\ \A i \in 1..Len(fnRes.val) : fnRes.val[i] # <<>>

(***************************************************************************)
(* Claims about _readQuickPlan, under SpecQuick.                           *)
(***************************************************************************)
\* a comes before b in lexicographic order: at the first place where they
\* differ, a has ended or holds the lesser character.
LexBefore(a, b) ==
  \E k \in 1..(Len(b)) :
    /\ \A i \in 1..(k - 1) : i <= Len(a) /\ a[i] = b[i]
    /\ (k > Len(a) \/ a[k] < b[k])

C15_OneActiveSession ==
  /\ Cardinality({p \in Procs : peers[p].pc = "loop"}) <= 1
  /\ Cardinality({p \in Procs : peers[p].pc = "save"}) <= 1

(***************************************************************************)
(* Claims about the probe, the provisioning and the resume launch, under   *)
(* Spec.                                                                   *)
(***************************************************************************)
Args(l, ops) ==
  LET es == SelectSeq(l, LAMBDA e : e.op \in ops)
  IN  [i \in 1..Len(es) |-> es[i].arg]

ProvisionFailed(l, a) ==
  \E i \in 1..Len(l) : l[i].op \in {"clone", "pull"} /\ l[i].arg = a /\ ~l[i].ok

\* C23: whenever the probe runs, every catalog worker is probed, in catalog
\* order, whatever the earlier probes answered, and the workers the
\* distributor then works with are exactly those whose probe succeeded, in
\* catalog order; a failed probe ends neither the dispatch nor start().
C23_LivenessProbe ==
  Invoked(log, "probe") =>
    /\ Args(log, {"probe"}) = AGENTS
    /\ Args(log, {"clone", "pull"}) = Probed(log)
    /\ (\A i \in 1..Len(log) : log[i].ok \/ log[i].op = "probe")
         => pc # "off"

C23_Witness ==
  /\ InRun(log)
  /\ Probed(log) = <<"gemini", "codex">>
  /\ Args(log, {"clone", "pull"}) = <<"gemini", "codex">>
  /\ Invoked(log, "select-layout")

\* C24: a worker whose provisioning failed is still given its round-robin
\* share of the tasks and is still launched, and the provisioning of the
\* other available workers is still attempted; in a resume the resume
\* window is still attempted.
C24_ProvisioningNotFatal ==
  \A a \in AgentNames :
    ProvisionFailed(log, a) =>
      /\ Args(log, {"clone", "pull"}) = Probed(log)
      /\ pc # "off"
      /\ InRun(log) =>
           /\ briefs[a] =
                [exists |-> TRUE,
                 tasks |-> TaskList(AssignTasks(plan.tasks, Probed(log))[a])]
           /\ \E i \in 1..Len(log) :
                log[i] = [op |-> "cmd-keys", arg |-> a, ok |-> TRUE]
           /\ \E i \in 1..Len(surface.windows) :
                surface.windows[i].name = a /\ surface.windows[i].cmd = a
           /\ Invoked(log, "select-layout")
      /\ Intent(log) = "continue" => Invoked(log, "new-window")

C24_Witness ==
  /\ InRun(log)
  /\ ProvisionFailed(log, "gemini")
  /\ Probed(log) = <<"gemini", "codex">>
  /\ "gemini" \notin provisioned
  /\ "codex" \in provisioned
  /\ Len(surface.windows) = 3

\* C25: a resume invokes neither the planner nor Distributor.run and writes
\* no brief or plan artifact; with no worker available it launches nothing;
\* otherwise it attempts one window, named resume, for opencode when
\* opencode is available and else for the first available worker.
C25_ResumeOneWindow ==
  Intent(log) = "continue" =>
    /\ ~Invoked(log, "planner.run") /\ ~Invoked(log, "gsd")
    /\ ~Invoked(log, "dist.run") /\ ~Invoked(log, "brief")
    /\ ~Invoked(log, "write-artifacts")
    /\ Args(log, {"new-window"}) \in {<<>>, <<"resume">>}
    /\ Probed(log) = <<>> => Args(log, {"new-window", "resume-pane"}) = <<>>
    /\ Probed(log) # <<>> =>
         /\ Args(log, {"new-window"}) = <<"resume">>
         /\ Args(log, {"resume-pane"}) =
              <<IF "opencode" \in Range(Probed(log)) THEN "opencode"
                ELSE Probed(log)[1]>>

C25_Witness ==
  /\ Intent(log) = "continue"
  /\ Probed(log) = AGENTS
  /\ Args(log, {"resume-pane"}) = <<"opencode">>

(***************************************************************************)
(* The teardown commands on their own: `zeroclaw kill` (Session.kill) and  *)
(* the stale-session teardown of _launchTmux, run up to MaxKills times on  *)
(* a surface and a session document that earlier sessions left.  fnArgs    *)
(* keeps what was there at first; fnRes the history of the runs.           *)
(***************************************************************************)
MaxKills == 2

CleanWorld ==
  [files |-> FreshWorkspace,
   quick |-> [n \in QuickNames |-> [dir |-> FALSE, plan |-> Absent]],
   surface |-> NoSurface,
   briefs |-> [a \in AgentNames |-> [exists |-> FALSE, tasks |-> <<>>]],
   provisioned |-> {},
   sess |-> [id |-> 0, state |-> "idle", agents |-> <<>>, resume |-> FALSE],
   doc |-> NoDoc, plan |-> NoPlan, log |-> <<>>, thrown |-> FALSE]

\* The surface a cycle with the workers `up` leaves, and the one a continue
\* intent then adds its window to.
LeftSurface(up) ==
  LaunchTmux(CleanWorld, AssignTasks(ExampleTasks, DetectAgents(up)),
             DetectAgents(up), NoFail).surface

ResumedSurface(up) ==
  TmuxNewPane([CleanWorld EXCEPT !.surface = LeftSurface(up)], "resume",
              "opencode", NoFail).surface

LeftSurfaces ==
  {NoSurface} \cup {LeftSurface(up) : up \in UpChoices \ {{}}}
              \cup {ResumedSurface(up) : up \in UpChoices \ {{}}}

LeftDocs ==
  {NoDoc} \cup {SaveState([id |-> 1, agents |-> <<>>], st) :
                  st \in {"active", "ended"}}

KillFails == {NoFail, [op |-> "kill-session", arg |-> ""]}

\* Session.kill: tmux kill-session -t zeroclaw in a try; 'Session killed.'
\* when it went through, 'No tmux session named "zeroclaw" found.' from the
\* catch.  It reads and writes nothing else.
Kill(w, fail) ==
  LET killed == w.surface.up /\ ~Fails(fail, "kill-session", "")
      w1 == Emit([w EXCEPT !.surface = IF killed THEN NoSurface ELSE @],
                 "kill-session", "", killed)
  IN  Emit(w1, "report", IF killed THEN "killed" ELSE "none-found", TRUE)

InitKill ==
  /\ pc = "off"
  /\ outcome = "none"
  /\ sess = [id |-> 0, state |-> "idle", agents |-> <<>>, resume |-> FALSE]
  /\ doc \in LeftDocs
  /\ loadInfo = [found |-> "none", stored |-> 0, fresh |-> 0]
  /\ nextId = 2
  /\ files = UsedWorkspace
  /\ quick = [n \in QuickNames |-> [dir |-> FALSE, plan |-> Absent]]
  /\ surface \in LeftSurfaces
  /\ briefs = [a \in AgentNames |-> [exists |-> FALSE, tasks |-> <<>>]]
  /\ provisioned = {}
  /\ plan = NoPlan
  /\ log = <<>>
  /\ nDisp = 0
  /\ fnArgs = [surface |-> surface, doc |-> doc]
  /\ fnRes = [calls |-> 0, kinds |-> <<>>, befores |-> <<>>, afters |-> <<>>,
              through |-> <<>>, reports |-> <<>>, raised |-> FALSE]
  /\ peers = NoPeers

Ran(kind, w, fail) ==
  [calls   |-> fnRes.calls + 1,
   kinds   |-> Append(fnRes.kinds, kind),
   befores |-> Append(fnRes.befores, surface),
   afters  |-> Append(fnRes.afters, w.surface),
   through |-> Append(fnRes.through, fail = NoFail),
   reports |-> Append(fnRes.reports,
                      IF Invoked(w.log, "report")
                      THEN w.log[Len(w.log)].arg ELSE ""),
   raised  |-> fnRes.raised \/ w.thrown]

\* bin/zeroclaw.js kill: Session.kill().
KillCommand ==
  /\ fnRes.calls < MaxKills
  /\ \E fail \in KillFails :
       LET w == Kill(World, fail)
       IN  /\ surface' = w.surface
           /\ doc' = w.doc
           /\ sess' = w.sess
           /\ files' = w.files
           /\ log' = w.log
           /\ fnRes' = Ran("kill", w, fail)
  /\ UNCHANGED <<pc, outcome, loadInfo, nextId, quick, briefs, provisioned,
                 plan, nDisp, fnArgs, peers>>

\* The first step of _launchTmux.
StaleTeardown ==
  /\ fnRes.calls < MaxKills
  /\ \E fail \in KillFails :
       LET w == KillStale(World, fail)
       IN  /\ surface' = w.surface
           /\ doc' = w.doc
           /\ sess' = w.sess
           /\ files' = w.files
           /\ log' = w.log
           /\ fnRes' = Ran("stale", w, fail)
  /\ UNCHANGED <<pc, outcome, loadInfo, nextId, quick, briefs, provisioned,
                 plan, nDisp, fnArgs, peers>>

NextKill ==
  \/ KillCommand
  \/ StaleTeardown

SpecKill == InitKill /\ [][NextKill]_vars

\* C22: neither teardown ever raises, with or without a surface; a teardown
\* that finds no surface changes nothing, and one that follows a teardown
\* that went through leaves the state that one left; no teardown touches
\* the session document or the workspace.
C22_IdempotentTeardown ==
  /\ ~fnRes.raised
  /\ doc = fnArgs.doc
  /\ files = UsedWorkspace
  /\ \A i \in 1..fnRes.calls :
       /\ fnRes.afters[i] \in {fnRes.befores[i], NoSurface}
       /\ ~fnRes.befores[i].up => fnRes.afters[i] = fnRes.befores[i]
       /\ (fnRes.through[i] => fnRes.afters[i] = NoSurface)
       /\ (i > 1 /\ fnRes.through[i - 1]) => fnRes.afters[i] = fnRes.afters[i - 1]

C22_Witness ==
  /\ fnRes.calls = 2
  /\ fnArgs.surface.up
  /\ fnRes.through = <<TRUE, TRUE>>
  /\ fnRes.afters = <<NoSurface, NoSurface>>
  /\ "stale" \in Range(fnRes.kinds)
  /\ "kill" \in Range(fnRes.kinds)

\* C29: every run of the kill command completes without raising; on a
\* surface that exists it ends the surface and reports it killed, and on
\* none it reports that none was found.
C29_KillCommand ==
  /\ ~fnRes.raised
  /\ \A i \in 1..fnRes.calls :
       fnRes.kinds[i] = "kill" =>
         IF fnRes.befores[i].up
         THEN fnRes.afters[i] = NoSurface /\ fnRes.reports[i] = "killed"
         ELSE fnRes.afters[i] = NoSurface /\ fnRes.reports[i] = "none-found"

\* C30: after the kill command has run on a session whose document says
\* active, the document says ended, so that the next start() keeps the
\* identifier its constructor generated.
C30_KillArchives ==
  (/\ fnRes.calls > 0
   /\ fnRes.kinds[fnRes.calls] = "kill"
   /\ fnArgs.doc.kind = "ok" /\ fnArgs.doc.status = "active") =>
     /\ doc.status = "ended"
     /\ ResumeId(doc, nextId) = nextId

(***************************************************************************)
(* The conversation loop over several cycles: the supervisor is at its     *)
(* prompt, in a workspace and, possibly, beside a surface that an earlier  *)
(* session left; up to MaxCycles dispatches follow.                        *)
(***************************************************************************)
MaxCycles == 2

InitCycles ==
  /\ pc = "loop"
  /\ outcome = "none"
  /\ sess = [id |-> 1, state |-> "idle", agents |-> <<>>, resume |-> FALSE]
  /\ doc = SaveState(sess, "active")
  /\ loadInfo = [found |-> "absent", stored |-> 0, fresh |-> 1]
  /\ nextId = 2
  /\ files = UsedWorkspace
  /\ quick = [n \in QuickNames |-> [dir |-> FALSE, plan |-> Absent]]
  /\ surface \in {NoSurface, LeftSurface({"gemini", "codex"})}
  /\ briefs = [a \in AgentNames |-> [exists |-> FALSE, tasks |-> <<>>]]
  /\ provisioned = {}
  /\ plan = NoPlan
  /\ log = <<>>
  /\ nDisp = 0
  /\ fnArgs = [tasks |-> <<>>, agents |-> <<>>]
  /\ fnRes = [done |-> FALSE, val |-> <<>>]
  /\ peers = NoPeers

CyclePlan == PlanIteration(MaxCycles)

CycleContinue == ContinueIteration(MaxCycles)

NextCycles ==
  \/ ConverseIgnored
  \/ ConverseExit
  \/ CyclePlan
  \/ Distribute
  \/ CycleContinue
  \/ Teardown

SpecCycles == InitCycles /\ [][NextCycles]_vars

OkArgs(l, ops) == Args(SelectSeq(l, LAMBDA e : e.ok), ops)

Names(sf) == [i \in 1..Len(sf.windows) |-> sf.windows[i].name]

\* C21: in every distribution cycle the teardown of the surface is invoked
\* before the one creation of the new surface; a creation that succeeds
\* beside a surface of an earlier cycle follows a teardown that ended that
\* surface, and the new surface holds the supervisor window and the windows
\* this cycle created and no other; when the creation fails there is still
\* at most the one surface that was there.
C21_TeardownBeforeCreate ==
  [][pc = "distributing" =>
       LET ks == {i \in 1..Len(log') : log'[i].op = "kill-session"}
           ns == {i \in 1..Len(log') : log'[i].op = "new-session"}
       IN  /\ Cardinality(ns) <= 1
           /\ \A n \in ns :
                /\ \E k \in ks : k < n
                /\ log'[n].ok =>
                     /\ surface.up => \E k \in ks : k < n /\ log'[k].ok
                     /\ surface'.up
                     /\ Names(surface') =
                          <<"supervisor">> \o OkArgs(log', {"new-window"})
                /\ ~log'[n].ok => surface' \in {surface, NoSurface}
           /\ ns = {} => surface' = surface]_vars

C21_Witness ==
  /\ InRun(log)
  /\ OkArgs(log, {"kill-session", "new-session"}) = <<"", "">>
  /\ Invoked(log, "select-layout")
  /\ Names(surface) = <<"supervisor">> \o AGENTS

\* C37: a continue dispatch whose new-window fails, with or without a
\* surface, ends at the prompt without an exception, and leaves the surface
\* and its windows as they were.
C37_ResumeFailureContained ==
  [][(/\ nDisp' # nDisp
      /\ Intent(log') = "continue"
      /\ OkArgs(log', {"new-window"}) = <<>>) =>
        /\ pc' = "loop"
        /\ outcome' = outcome
        /\ surface' = surface]_vars

C37_Witness ==
  /\ pc = "loop"
  /\ Intent(log) = "continue"
  /\ Args(log, {"new-window"}) = <<"resume">>
  /\ OkArgs(log, {"new-window"}) = <<>>
  /\ surface = LeftSurface({"gemini", "codex"})

\* C39: the plan of a new_task dispatch that selected a phase p, p = 0
\* included, is of kind phase, carries p, and holds the documents of the
\* directory of phase p; no new_task dispatch yields a plan of kind project,
\* which comes only from the read without a phase of project_init.
C39_PhaseScopedRead ==
  /\ (/\ Intent(log) = "new_task"
      /\ \E i \in 1..Len(log) : log[i].op = "gsd" /\ log[i].arg = "plan-phase"
      /\ plan # NoPlan) =>
        /\ plan.type = "phase"
        /\ plan.phase = NextPhase(files)
        /\ plan.files["PLAN.md"] =
             Get(files, <<PhaseDir(NextPhase(files)), "PLAN.md">>)
  /\ Intent(log) = "new_task" => plan.type # "project"

\* C26: whatever distribution cycles and continue intents have run, no two
\* windows of the surface bear the same name.
C26_UniqueWindowNames ==
  \A i, j \in 1..Len(surface.windows) :
    i < j => surface.windows[i].name # surface.windows[j].name

(***************************************************************************)
(* The supervisor at its prompt and the workers in the windows, each       *)
(* running on its own: a worker started by a send-keys finishes whenever   *)
(* it does.                                                                *)
(***************************************************************************)
\* The worker a send-keys started in a window finishes its work; nothing in
\* the supervisor takes part in this step.
WorkerProgress ==
  /\ \E i \in 1..Len(surface.windows) :
       /\ surface.windows[i].cmd \in AgentNames
       /\ ~surface.windows[i].done
       /\ surface' = [surface EXCEPT !.windows[i].done = TRUE]
  /\ UNCHANGED <<pc, outcome, sess, doc, loadInfo, nextId, files, quick,
                 briefs, provisioned, plan, log, nDisp, fnVars>>

SupervisorStep ==
  \/ ConverseIgnored
  \/ ConverseExit
  \/ ConversePlan
  \/ Distribute
  \/ ConverseContinue
  \/ Teardown

NextWorkers ==
  \/ SupervisorStep
  \/ WorkerProgress

SpecWorkers == InitCycles /\ [][NextWorkers]_vars

Unfinished(sf) ==
  {i \in 1..Len(sf.windows) :
     sf.windows[i].cmd \in AgentNames /\ ~sf.windows[i].done}

\* C27: whatever the workers have or have not done, the supervisor has a
\* step to take as long as it runs: Distributor.run can run whenever a plan
\* is to be distributed, it ends in the loop (or, on an exception, ends the
\* process), and the loop takes input whenever it is reached.
C27_FireAndForget ==
  /\ pc \in {"loop", "distributing", "exiting", "off"}
  /\ pc # "off" => ENABLED SupervisorStep
  /\ pc = "distributing" => ENABLED Distribute
  /\ pc = "loop" => ENABLED ConverseExit
  /\ Invoked(log, "dist.run") => pc \in {"loop", "off"}
  /\ OkArgs(log, {"select-layout"}) # <<>> => pc = "loop"

C27_Witness ==
  /\ pc = "loop"
  /\ Invoked(log, "select-layout")
  /\ Cardinality(Unfinished(surface)) = Len(surface.windows) - 1
  /\ Len(surface.windows) = 5

(***************************************************************************)
(* Sessions started with and without --resume, up to the loop, a continue  *)
(* intent and the exit.                                                    *)
(***************************************************************************)
NextResume ==
  \/ Start
  \/ StartResume
  \/ EnsureDirs
  \/ LoadOrInitState
  \/ EnsureRepo
  \/ ConverseIgnored
  \/ ConverseExit
  \/ ConverseContinue
  \/ Teardown

SpecResume == Init /\ [][NextResume]_vars

\* C28: a session started with --resume has made the resume launch by the
\* time its loop prompts, without a continue intent; in a session started
\* without the flag a resume launch is made only by a continue intent.
C28_ResumeFlag ==
  /\ (pc = "loop" /\ sess.resume) => Invoked(log, "dist.resume")
  /\ (~sess.resume /\ Invoked(log, "dist.resume")) => Intent(log) = "continue"

(***************************************************************************)
(* Claims about the order of the steps of a distribution cycle, under      *)
(* Spec.                                                                   *)
(***************************************************************************)
Places(l, ops) == {i \in 1..Len(l) : l[i].op \in ops}

Before(l, first, then) ==
  \A i \in Places(l, first), j \in Places(l, then) : i < j

\* C31: in a cycle that found a worker, the provisioning of every available
\* worker has been attempted and the plan artifacts have been written, once,
\* before the teardown of the stale surface is invoked, and the teardown
\* before any surface or window is created.
C31_ProvisionWriteBeforeLaunch ==
  (InRun(log) /\ Probed(log) # <<>>) =>
    /\ Args(log, {"clone", "pull"}) = Probed(log)
    /\ Cardinality(Places(log, {"write-artifacts"})) = 1
    /\ Cardinality(Places(log, {"kill-session"})) = 1
    /\ files[<<PlanDir, "implement.md">>].exists
    /\ Before(log, {"clone", "pull"}, {"write-artifacts"})
    /\ Before(log, {"write-artifacts"}, {"kill-session"})
    /\ Before(log, {"kill-session"}, {"new-session", "new-window", "brief"})

C31_Witness ==
  /\ InRun(log)
  /\ Probed(log) = AGENTS
  /\ OkArgs(log, {"new-window"}) = AGENTS
  /\ Cardinality(Places(log, {"write-artifacts"})) = 1

\* C32: for every worker whose window a cycle created, the cycle wrote that
\* worker's brief exactly once, before it created the window, and the brief
\* lists the tasks assigned to the worker, numbered from 1 in the order of
\* the assignment.
C32_BriefBeforeWindow ==
  InRun(log) =>
    \A a \in Range(OkArgs(log, {"new-window"})) :
      LET bs == {i \in Places(log, {"brief"}) : log[i].arg = a}
          ws == {i \in Places(log, {"new-window"}) : log[i].arg = a}
          mine == AssignTasks(plan.tasks, Probed(log))[a]
      IN  /\ Cardinality(bs) = 1
          /\ Cardinality(ws) = 1
          /\ \A i \in bs, j \in ws : i < j
          /\ briefs[a].exists
          /\ Len(briefs[a].tasks) = Len(mine)
          /\ \A k \in 1..Len(mine) :
               briefs[a].tasks[k] = [no |-> k, text |-> mine[k]]

C32_Witness ==
  /\ InRun(log)
  /\ OkArgs(log, {"new-window"}) = <<"gemini", "codex">>
  /\ Len(plan.tasks) = 2
  /\ briefs["codex"].tasks = <<[no |-> 1, text |-> plan.tasks[2]]>>

\* C33: in a cycle in which no invocation of the launch fails, one window is
\* created for each available worker, in the order of the available list,
\* also for a worker whose task list is empty.
C33_OneWindowPerWorker ==
  (/\ InRun(log)
   /\ Probed(log) # <<>>
   /\ \A i \in Places(log, {"new-session", "new-window", "cd-keys", "cmd-keys",
                            "status-keys", "select-layout"}) : log[i].ok) =>
    /\ Args(log, {"new-window"}) = Probed(log)
    /\ Names(surface) = <<"supervisor">> \o Probed(log)
    /\ Invoked(log, "select-layout")

C33_Witness ==
  /\ InRun(log)
  /\ Probed(log) = AGENTS
  /\ Len(plan.tasks) = 2
  /\ Names(surface) = <<"supervisor">> \o AGENTS
  /\ briefs["opencode"] = [exists |-> TRUE, tasks |-> <<>>]

(***************************************************************************)
(* Claims about the order of start(), under Spec.                          *)
(***************************************************************************)
\* C34: the session document is read, and written as active, only by the
\* step that follows _ensureDirs; the loop is first reached from the state
\* in which the document has been loaded or initialised and persisted as
\* active under the session's identifier, and no dispatch is made before.
C34_StartupOrdering ==
  [][/\ (loadInfo'.found # loadInfo.found /\ loadInfo'.found # "none")
          => pc = "dirs"
     /\ (doc' # doc /\ doc'.kind = "ok" /\ doc'.status = "active")
          => pc = "dirs"
     /\ (pc' = "loaded" /\ pc # "loaded") => pc = "dirs"
     /\ (pc' = "dirs" /\ pc # "dirs") => pc = "constructed"
     /\ (pc' = "loop" /\ pc \notin {"loop", "distributing"}) =>
          /\ pc = "loaded"
          /\ loadInfo.found \in {"absent", "active", "ended"}
          /\ doc = SaveState(sess, "active")
          /\ log' = <<>>
     /\ (log' # <<>> /\ log = <<>>) => pc = "loop"]_vars

C34_Witness ==
  /\ pc = "loop"
  /\ log = <<>>
  /\ loadInfo.found = "ended"
  /\ doc = SaveState(sess, "active")
  /\ sess.id = 2

\* C35: when start() stops after the session document was initialised and
\* before the end-of-session write (the process is shut down between two
\* writes, or an exception leaves ensureRepo or a dispatch), the document
\* still says active under the session's identifier, which the next start()
\* therefore takes over; the document comes to say ended only by the write
\* that follows an exit intent.
C35_InterruptedNotOrphaned ==
  [][/\ (/\ pc \in {"loaded", "loop", "distributing", "exiting"}
         /\ pc' = "off"
         /\ outcome' # "returned"
         /\ ~InterruptDuringSave) =>
          /\ outcome' \in {"killed", "crashed-git", "crashed-dispatch"}
          /\ doc' = SaveState(sess', "active")
          /\ sess'.id = sess.id
          /\ ResumeId(doc', nextId) = sess.id
     /\ (doc'.status = "ended" /\ doc.status # "ended") =>
          /\ pc = "exiting"
          /\ Intent(log) = "exit"
          /\ outcome' = "returned"]_vars

C35_Witness ==
  /\ pc = "off"
  /\ outcome = "crashed-dispatch"
  /\ doc = SaveState(sess, "active")
  /\ sess.id = 1
  /\ nextId = 3

(***************************************************************************)
(* The supervisor left to run with an operator who does enter exit: every  *)
(* step of start() that can be taken is taken, each invocation returning   *)
(* with success or with a failure, and the exit input comes whenever the   *)
(* loop keeps prompting.                                                   *)
(***************************************************************************)
SpecTerminate ==
  /\ Init
  /\ [][NextUninterrupted]_vars
  /\ WF_vars(EnsureDirs)
  /\ WF_vars(LoadOrInitState)
  /\ WF_vars(EnsureRepo)
  /\ WF_vars(Distribute)
  /\ SF_vars(ConverseExit)
  /\ WF_vars(Teardown)

\* C36: a start() whose invocations all return, and whose operator enters
\* exit at the prompt, returns with the session document saying ended.
C36_SessionTerminates ==
  (pc = "constructed") ~> (outcome = "returned" /\ doc.status = "ended")

(***************************************************************************)
(* Planner._nextPhase on its own, on roadmaps of up to MaxLines lines: a   *)
(* line is a phase entry with its checkbox, or a line of notes.            *)
(***************************************************************************)
RoadmapEntries ==
  [kind : {"phase"}, checked : BOOLEAN, no : {1, 2}]
  \cup [kind : {"notes"}, checked : {FALSE}, no : {0}]

RoadmapLine(e) ==
  IF e.kind = "notes" THEN <<"n", "o", "t", "e", "s">>
  ELSE <<"-", " ", "[", IF e.checked THEN "x" ELSE " ", "]", " ",
         "P", "h", "a", "s", "e", " ", Digits[e.no + 1]>>

RoadmapOf(entries) ==
  JoinLines([i \in 1..Len(entries) |-> RoadmapLine(entries[i])], 1)

InitPhase ==
  /\ pc = "off"
  /\ outcome = "none"
  /\ sess = [id |-> 0, state |-> "idle", agents |-> <<>>, resume |-> FALSE]
  /\ doc = NoDoc
  /\ loadInfo = [found |-> "none", stored |-> 0, fresh |-> 0]
  /\ nextId = 1
  /\ \E exists \in BOOLEAN :
       /\ fnArgs \in [exists : {exists},
                      entries : IF exists
                                THEN UNION {[1..n -> RoadmapEntries] :
                                              n \in 0..MaxLines}
                                ELSE {<<>>}]
       /\ files = [FreshWorkspace EXCEPT ![<<PlanDir, "ROADMAP.md">>] =
                     IF exists THEN File(RoadmapOf(fnArgs.entries))
                     ELSE Absent]
  /\ quick = [n \in QuickNames |-> [dir |-> FALSE, plan |-> Absent]]
  /\ surface = NoSurface
  /\ briefs = [a \in AgentNames |-> [exists |-> FALSE, tasks |-> <<>>]]
  /\ provisioned = {}
  /\ plan = NoPlan
  /\ log = <<>>
  /\ nDisp = 0
  /\ fnRes = [done |-> FALSE, val |-> NoPhase]
  /\ peers = NoPeers

SelectPhase ==
  /\ ~fnRes.done
  /\ fnRes' = [done |-> TRUE, val |-> NextPhase(files)]
  /\ UNCHANGED <<sysVars, fnArgs, peers>>

NextSelectPhase == SelectPhase

SpecPhase == InitPhase /\ [][NextSelectPhase]_vars

\* C38: _nextPhase answers null exactly when the workspace has no roadmap,
\* and on a roadmap with an unchecked phase it answers the number of the
\* first unchecked phase.
C38_NextPhaseSelection ==
  fnRes.done =>
    LET es == fnArgs.entries
        open == {i \in 1..Len(es) : es[i].kind = "phase" /\ ~es[i].checked}
    IN  /\ (fnRes.val = NoPhase) <=> ~fnArgs.exists
        /\ open # {} =>
             fnRes.val = es[CHOOSE i \in open : \A j \in open : i <= j].no

=============================================================================
